---- MODULE Spec2Model ----
(***************************************************************************)
(* A model of json-ultra-compress: the column encoders, the columnar       *)
(* NDJSON front-end and its frame reader, the selective decoder, the       *)
(* generic back-ends and the JCO1 container.                               *)
(*                                                                         *)
(* Texts are sequences of UTF-16 code units, byte strings are sequences of *)
(* 0..255, offsets are 0-based as in the source.  A JavaScript number that *)
(* holds an integer is a pair <<hi, lo>> standing for hi * 2^26 + lo with  *)
(* 0 <= lo < 2^26, so that the double arithmetic of the source (exact up   *)
(* to 2^53) and its 32-bit conversions are computed without overflow.      *)
(***************************************************************************)
EXTENDS Integers, Sequences, FiniteSets, TLC

VARIABLES pc, given, config, packed, output, file, saved, cat, written, pool

vars == <<pc, given, config, packed, output, file, saved, cat, written, pool>>

\* the state of a juc-cat run: the file it follows, its state file, the
\* process and the lines it has written
followVars == <<file, saved, cat, written>>

\* ------------------------------------------------------------------------
\* Sequences
\* ------------------------------------------------------------------------

Range(s) == {s[i] : i \in DOMAIN s}

\* the concatenation of ss[lo..hi], halving the range to keep the nesting flat
RECURSIVE FlatRange(_, _, _)
FlatRange(ss, lo, hi) ==
    IF lo > hi THEN <<>>
    ELSE IF lo = hi THEN ss[lo]
    ELSE FlatRange(ss, lo, (lo + hi) \div 2) \o FlatRange(ss, ((lo + hi) \div 2) + 1, hi)

Flatten(ss) == FlatRange(ss, 1, Len(ss))

\* s.subarray(from, to) / s.slice(from, to): 0-based, clamped, a negative
\* offset counted from the end
Slice(s, from, to) ==
    LET rel(i) == IF i < 0 THEN (IF Len(s) + i < 0 THEN 0 ELSE Len(s) + i)
                  ELSE IF i > Len(s) THEN Len(s) ELSE i
    IN  IF rel(from) >= rel(to) THEN <<>> ELSE SubSeq(s, rel(from) + 1, rel(to))

Undef == 0 - 1

\* data[i] of a Uint8Array: undefined past the end
ByteAt(data, i) == IF i >= 0 /\ i < Len(data) THEN data[i + 1] ELSE Undef

Repeat(v, n) == [i \in 1..n |-> v]

\* TRUE, once the value a loop carries has been computed
Known(x) == x = x

\* Body of a value computed once: const x = value; ...
With(value, Body(_)) == Body(value)

\* lexicographic order on sequences of code units (the default Array.sort)
RECURSIVE LexLess(_, _)
LexLess(a, b) ==
    IF b = <<>> THEN FALSE
    ELSE IF a = <<>> THEN TRUE
    ELSE IF Head(a) # Head(b) THEN Head(a) < Head(b)
    ELSE LexLess(Tail(a), Tail(b))

RECURSIVE SortStrings(_)
SortStrings(S) ==
    IF S = {} THEN <<>>
    ELSE LET m == CHOOSE x \in S : \A y \in S : y = x \/ LexLess(x, y)
         IN  <<m>> \o SortStrings(S \ {m})

IndexOf(seq, x) == (CHOOSE i \in DOMAIN seq : seq[i] = x) - 1

CeilDiv(a, b) == (a + b - 1) \div b

\* ------------------------------------------------------------------------
\* JavaScript numbers holding integers, and the 32-bit conversions
\* ------------------------------------------------------------------------

NumBase == 2^26

Norm(h, l) == <<h + (l \div NumBase), l % NumBase>>
NumOf(i) == Norm(0, i)
NumAdd(x, y) == Norm(x[1] + y[1], x[2] + y[2])
NumNeg(x) == Norm(0 - x[1], 0 - x[2])
NumSub(x, y) == NumAdd(x, NumNeg(y))
NumLt(x, y) == x[1] < y[1] \/ (x[1] = y[1] /\ x[2] < y[2])
NumIsNeg(x) == x[1] < 0
NumZero == <<0, 0>>

\* value >>> 0 : the number modulo 2^32, as a pair with 0 <= hi < 64
ToUint32(x) == <<x[1] % 64, x[2]>>

\* ToInt32 : the signed 32-bit value, which fits a model integer
ToInt32(x) ==
    LET u == ToUint32(x)
    IN  IF u[1] >= 32 THEN (u[1] - 64) * NumBase + u[2] ELSE u[1] * NumBase + u[2]

\* v >>> 7 on an unsigned 32-bit pair
U32Shr7(v) == <<v[1] \div 128, (v[2] \div 128) + (v[1] % 128) * (2^19)>>

\* the two's complement bits of a signed 32-bit integer
Bits32(n) == {i \in 0..30 : (n \div (2^i)) % 2 = 1} \cup (IF n < 0 THEN {31} ELSE {})

RECURSIVE SumPow(_)
SumPow(S) == IF S = {} THEN 0
             ELSE LET i == CHOOSE j \in S : TRUE IN (2^i) + SumPow(S \ {i})

FromBits32(S) ==
    LET low == SumPow(S \ {31})
    IN  IF 31 \in S THEN (low - (2^30)) - (2^30) ELSE low

\* a | b and x << s on signed 32-bit integers (the shift count is taken mod 32)
Or32(a, b) == FromBits32(Bits32(a) \cup Bits32(b))
Shl32(x, s) == FromBits32({i + (s % 32) : i \in Bits32(x)} \cap (0..31))

\* ------------------------------------------------------------------------
\* Varint and ZigZag (src/src/ndjson/columnar.ts)
\* ------------------------------------------------------------------------

RECURSIVE VarintBytes(_)
VarintBytes(v) ==
    IF v[1] > 0 \/ v[2] >= 128
    THEN <<(v[2] % 128) + 128>> \o VarintBytes(U32Shr7(v))
    ELSE <<v[2] % 256>>

encodeVarint(value) == VarintBytes(ToUint32(value))

RECURSIVE VarintLoop(_, _, _, _)
VarintLoop(data, pos, value, shift) ==
    IF pos >= Len(data) \/ ~Known(value) THEN [value |-> value, newOffset |-> pos]
    ELSE With(ByteAt(data, pos), LAMBDA byte :
         With(Or32(value, Shl32(byte % 128, shift)), LAMBDA v2 :
             IF byte < 128 THEN [value |-> v2, newOffset |-> pos + 1]
             ELSE VarintLoop(data, pos + 1, v2, shift + 7)))

decodeVarint(data, offset) == VarintLoop(data, offset, 0, 0)

zigzagEncode(n) == IF ~NumIsNeg(n) THEN NumAdd(n, n)
                   ELSE NumSub(NumAdd(NumNeg(n), NumNeg(n)), NumOf(1))

\* n is a JavaScript number; the result of the 32-bit operators fits an integer
zigzagDecode(n) ==
    IF n[2] % 2 = 1
    THEN NumOf(0 - (ToInt32(NumAdd(n, NumOf(1))) \div 2))
    ELSE NumOf(ToInt32(n) \div 2)

\* ------------------------------------------------------------------------
\* JSON values, JSON.stringify and JSON.parse
\*
\* A value is a record [t, n, s, kids]: t its type, n the number (integer
\* part for a fraction), s the string (or the fraction digits), kids the
\* members [k, v] of an object in insertion order or the elements of an
\* array (k empty).  The texts of the model use no escapes and no exponents.
\* ------------------------------------------------------------------------

JNull == [t |-> "null", n |-> NumZero, s |-> <<>>, kids |-> <<>>]
JBool(b) == [t |-> "bool", n |-> IF b THEN NumOf(1) ELSE NumZero, s |-> <<>>, kids |-> <<>>]
JInt(x) == [t |-> "int", n |-> x, s |-> <<>>, kids |-> <<>>]
JFlt(x, frac) == [t |-> "flt", n |-> x, s |-> frac, kids |-> <<>>]
JStr(chars) == [t |-> "str", n |-> NumZero, s |-> chars, kids |-> <<>>]
JArr(elems) == [t |-> "arr", n |-> NumZero, s |-> <<>>,
                kids |-> [i \in DOMAIN elems |-> [k |-> <<>>, v |-> elems[i]]]]
JObj(members) == [t |-> "obj", n |-> NumZero, s |-> <<>>, kids |-> members]

\* Object.keys(obj) in insertion order, key in obj, obj[key]
ObjectKeys(obj) == IF obj.t = "obj" THEN [i \in DOMAIN obj.kids |-> obj.kids[i].k] ELSE <<>>
HasKey(obj, key) == \E i \in DOMAIN obj.kids : obj.kids[i].k = key
Get(obj, key) == obj.kids[CHOOSE i \in DOMAIN obj.kids : obj.kids[i].k = key].v

\* the own property JSON.parse defines: replaces in place or appends
DefineKey(obj, key, value) ==
    IF HasKey(obj, key)
    THEN [obj EXCEPT !.kids = [i \in DOMAIN obj.kids |->
              IF obj.kids[i].k = key THEN [k |-> key, v |-> value] ELSE obj.kids[i]]]
    ELSE [obj EXCEPT !.kids = Append(obj.kids, [k |-> key, v |-> value])]

\* __proto__
ProtoKey == <<95, 95, 112, 114, 111, 116, 111, 95, 95>>

\* obj[key] = value on an object made by {}: under __proto__ the assignment
\* goes to the setter of Object.prototype and leaves no own property
SetKey(obj, key, value) ==
    IF key = ProtoKey THEN obj ELSE DefineKey(obj, key, value)

NumDiv10(x) ==
    LET t == (x[1] % 10) * NumBase + x[2]
    IN  [q |-> NumAdd(<<x[1] \div 10, 0>>, NumOf(t \div 10)), r |-> t % 10]

NumMul10(x) == Norm(x[1] * 10, x[2] * 10)

RECURSIVE NatDigits(_)
NatDigits(x) ==
    IF x[1] = 0 /\ x[2] < 10 THEN <<48 + x[2]>>
    ELSE LET d == NumDiv10(x) IN NatDigits(d.q) \o <<48 + d.r>>

NumText(x) == IF NumIsNeg(x) THEN <<45>> \o NatDigits(NumNeg(x)) ELSE NatDigits(x)

Quote(chars) == <<34>> \o chars \o <<34>>

RECURSIVE Stringify(_)
RECURSIVE StringifyKids(_, _)
StringifyKids(kids, isObj) ==
    IF kids = <<>> THEN <<>>
    ELSE (IF isObj THEN Quote(Head(kids).k) \o <<58>> ELSE <<>>)
         \o Stringify(Head(kids).v)
         \o (IF Len(kids) > 1 THEN <<44>> ELSE <<>>)
         \o StringifyKids(Tail(kids), isObj)

\* JSON.stringify(value), compact
Stringify(v) ==
    CASE v.t = "null" -> <<110, 117, 108, 108>>
      [] v.t = "bool" -> IF v.n = NumZero THEN <<102, 97, 108, 115, 101>>
                         ELSE <<116, 114, 117, 101>>
      [] v.t = "int"  -> NumText(v.n)
      [] v.t = "flt"  -> NumText(v.n) \o <<46>> \o v.s
      [] v.t = "str"  -> Quote(v.s)
      [] v.t = "arr"  -> <<91>> \o StringifyKids(v.kids, FALSE) \o <<93>>
      [] v.t = "obj"  -> <<123>> \o StringifyKids(v.kids, TRUE) \o <<125>>

CharAt(s, p) == IF p >= 0 /\ p < Len(s) THEN s[p + 1] ELSE Undef

JsonWs == {32, 9, 10, 13}

\* the first position from p on that holds no white space
SkipWs(s, p) ==
    LET stops == {i \in p..(Len(s) - 1) : s[i + 1] \notin JsonWs}
    IN  IF p >= Len(s) THEN p
        ELSE IF stops = {} THEN Len(s)
        ELSE CHOOSE i \in stops : \A j \in stops : i <= j

ParseFail == [ok |-> FALSE, v |-> JNull, pos |-> 0]
ParseOk(v, p) == [ok |-> TRUE, v |-> v, pos |-> p]

ParseLit(s, p, word, v) ==
    IF Slice(s, p, p + Len(word)) = word THEN ParseOk(v, p + Len(word)) ELSE ParseFail

RECURSIVE ScanDigits(_, _, _)
ScanDigits(s, p, acc) ==
    IF Known(acc) /\ CharAt(s, p) \in 48..57
    THEN ScanDigits(s, p + 1, NumAdd(NumMul10(acc), NumOf(CharAt(s, p) - 48)))
    ELSE [n |-> acc, pos |-> p]

\* the number whose digits start at p1, negated where neg
ParseDigits(s, p1, neg) ==
    With(ScanDigits(s, p1, NumZero), LAMBDA ip :
    With(IF neg THEN NumNeg(ip.n) ELSE ip.n, LAMBDA whole :
        IF ip.pos = p1 THEN ParseFail
        ELSE IF CharAt(s, p1) = 48 /\ ip.pos > p1 + 1 THEN ParseFail
        ELSE IF CharAt(s, ip.pos) = 46
        THEN With(ScanDigits(s, ip.pos + 1, NumZero), LAMBDA fp :
                 IF fp.pos = ip.pos + 1 THEN ParseFail
                 ELSE IF fp.n = NumZero THEN ParseOk(JInt(whole), fp.pos)
                 ELSE ParseOk(JFlt(whole, Slice(s, ip.pos + 1, fp.pos)), fp.pos))
        ELSE ParseOk(JInt(whole), ip.pos)))

ParseNumber(s, p) ==
    IF CharAt(s, p) = 45 THEN ParseDigits(s, p + 1, TRUE) ELSE ParseDigits(s, p, FALSE)

\* the position of the quote that closes the string begun before p, Undef
\* where an escape, a control character or the end of the text comes first
ScanString(s, p) ==
    LET stops == {i \in p..(Len(s) - 1) : s[i + 1] = 34 \/ s[i + 1] = 92 \/ s[i + 1] < 32}
        e == CHOOSE i \in stops : \A j \in stops : i <= j
    IN  IF stops = {} THEN Undef
        ELSE IF s[e + 1] = 34 THEN e ELSE Undef

\* a string token at p: [ok, v |-> JStr, pos]
ParseString(s, p) ==
    IF CharAt(s, p) # 34 THEN ParseFail
    ELSE With(ScanString(s, p + 1), LAMBDA e :
             IF e = Undef THEN ParseFail ELSE ParseOk(JStr(Slice(s, p + 1, e)), e + 1))

RECURSIVE ParseValue(_, _)
RECURSIVE ParseElems(_, _, _)
RECURSIVE ParseMembers(_, _, _)

\* after '[' or ',' : the next element, then ',' or ']'
ParseElems(s, p, acc) ==
    With(ParseValue(s, SkipWs(s, p)), LAMBDA r :
    With(SkipWs(s, r.pos), LAMBDA q :
    With(Append(acc, r.v), LAMBDA elems :
        IF ~r.ok \/ ~Known(acc) THEN ParseFail
        ELSE IF CharAt(s, q) = 44 THEN ParseElems(s, q + 1, elems)
        ELSE IF CharAt(s, q) = 93 THEN ParseOk(JArr(elems), q + 1)
        ELSE ParseFail)))

\* after '{' or ',' : the next member, then ',' or '}'
ParseMembers(s, p, acc) ==
    With(ParseString(s, SkipWs(s, p)), LAMBDA k :
    With(SkipWs(s, k.pos), LAMBDA c :
        IF ~k.ok \/ CharAt(s, c) # 58 \/ ~Known(acc) THEN ParseFail
        ELSE With(ParseValue(s, SkipWs(s, c + 1)), LAMBDA r :
             With(SkipWs(s, r.pos), LAMBDA q :
             With(DefineKey(acc, k.v.s, r.v), LAMBDA members :
                 IF ~r.ok THEN ParseFail
                 ELSE IF CharAt(s, q) = 44 THEN ParseMembers(s, q + 1, members)
                 ELSE IF CharAt(s, q) = 125 THEN ParseOk(members, q + 1)
                 ELSE ParseFail)))))

ParseValue(s, p) ==
    With(CharAt(s, p), LAMBDA c :
        CASE c = 110 -> ParseLit(s, p, <<110, 117, 108, 108>>, JNull)
          [] c = 116 -> ParseLit(s, p, <<116, 114, 117, 101>>, JBool(TRUE))
          [] c = 102 -> ParseLit(s, p, <<102, 97, 108, 115, 101>>, JBool(FALSE))
          [] c = 34  -> ParseString(s, p)
          [] c = 45 \/ c \in 48..57 -> ParseNumber(s, p)
          [] c = 91  -> With(SkipWs(s, p + 1), LAMBDA q :
                            IF CharAt(s, q) = 93 THEN ParseOk(JArr(<<>>), q + 1)
                            ELSE ParseElems(s, p + 1, <<>>))
          [] c = 123 -> With(SkipWs(s, p + 1), LAMBDA q :
                            IF CharAt(s, q) = 125 THEN ParseOk(JObj(<<>>), q + 1)
                            ELSE ParseMembers(s, p + 1, JObj(<<>>)))
          [] OTHER -> ParseFail)

\* JSON.parse(text): [ok |-> FALSE] stands for the SyntaxError it throws
JSONParse(s) ==
    With(ParseValue(s, SkipWs(s, 0)), LAMBDA r :
        IF r.ok /\ SkipWs(s, r.pos) = Len(s) THEN [ok |-> TRUE, v |-> r.v]
        ELSE [ok |-> FALSE, v |-> JNull])

\* deep equality of parsed values, the order of an object's keys ignored
RECURSIVE ValEq(_, _)
ValEq(a, b) ==
    /\ a.t = b.t
    /\ a.n = b.n
    /\ a.s = b.s
    /\ Len(a.kids) = Len(b.kids)
    /\ IF a.t = "obj"
       THEN \A i \in DOMAIN a.kids :
               HasKey(b, a.kids[i].k) /\ ValEq(a.kids[i].v, Get(b, a.kids[i].k))
       ELSE \A i \in DOMAIN a.kids : ValEq(a.kids[i].v, b.kids[i].v)

\* String.prototype.trim
TrimWs == {9, 10, 11, 12, 13, 32, 160, 65279}

RECURSIVE TrimStart(_)
TrimStart(s) == IF s # <<>> /\ Head(s) \in TrimWs THEN TrimStart(Tail(s)) ELSE s

RECURSIVE TrimEnd(_)
TrimEnd(s) == IF s # <<>> /\ s[Len(s)] \in TrimWs THEN TrimEnd(SubSeq(s, 1, Len(s) - 1)) ELSE s

Trim(s) == TrimEnd(TrimStart(s))

\* TextEncoder / TextDecoder on the code units of the model: ASCII and U+FEFF
utf8Encode(text) ==
    Flatten([i \in DOMAIN text |->
        IF text[i] = 65279 THEN <<239, 187, 191>> ELSE <<text[i]>>])

\* the code units of a byte string: EF BB BF is U+FEFF, any other byte itself
Utf8Units(bytes) ==
    LET isBom(i) == i + 2 <= Len(bytes) /\ bytes[i] = 239 /\ bytes[i + 1] = 187
                    /\ bytes[i + 2] = 191
        inBom(i) == (i > 1 /\ isBom(i - 1)) \/ (i > 2 /\ isBom(i - 2))
        idx == SelectSeq([i \in DOMAIN bytes |-> i], LAMBDA i : ~inBom(i))
    IN  [k \in DOMAIN idx |-> IF isBom(idx[k]) THEN 65279 ELSE bytes[idx[k]]]

\* new TextDecoder().decode(bytes) drops one leading byte order mark
utf8Decode(bytes) ==
    With(Utf8Units(bytes), LAMBDA u : IF u # <<>> /\ Head(u) = 65279 THEN Tail(u) ELSE u)

\* ------------------------------------------------------------------------
\* Column encoders (src/src/ndjson/columnar.ts)
\* ------------------------------------------------------------------------

INT_VARINT == 0
DELTA_ZIGZAG == 1
TIME_DOD == 2
BOOL_RLE == 3
ENUM_IDS == 4
RAW_JSON == 6

\* the marker left by a decoder whose JSON.parse threw
JThrow == [t |-> "throw", n |-> NumZero, s |-> <<>>, kids |-> <<>>]
Threw(values) == \E i \in DOMAIN values : values[i].t = "throw"

NonNull(values) == SelectSeq(values, LAMBDA v : v.t # "null")

NumMin(S) == CHOOSE x \in S : \A y \in S : y = x \/ NumLt(x, y)
NumMax(S) == CHOOSE x \in S : \A y \in S : y = x \/ NumLt(y, x)

\* the varint written for a present integer: zigzag, then + 1 to keep 0 for null
IntCode(n) == encodeVarint(NumAdd(zigzagEncode(n), NumOf(1)))

encodeIntVarintColumn(values) ==
    <<INT_VARINT>> \o
    Flatten([i \in DOMAIN values |->
        IF values[i].t = "null" THEN encodeVarint(NumZero) ELSE IntCode(values[i].n)])

RECURSIVE DeltaChunks(_, _, _)
DeltaChunks(values, i, prev) ==
    IF i > Len(values) THEN <<>>
    ELSE IF values[i].t = "null"
    THEN encodeVarint(NumZero) \o DeltaChunks(values, i + 1, prev)
    ELSE IF i = 1
    THEN IntCode(values[i].n) \o DeltaChunks(values, i + 1, values[i].n)
    ELSE IntCode(NumSub(values[i].n, prev)) \o DeltaChunks(values, i + 1, values[i].n)

encodeDeltaZigzagColumn(values) == <<DELTA_ZIGZAG>> \o DeltaChunks(values, 1, NumZero)

RECURSIVE RunLength(_, _, _)
RunLength(values, i, n) ==
    IF i + n <= Len(values) /\ values[i + n] = values[i] THEN RunLength(values, i, n + 1) ELSE n

RECURSIVE BoolRuns(_, _)
BoolRuns(values, i) ==
    IF i > Len(values) THEN <<>>
    ELSE With(RunLength(values, i, 1), LAMBDA runLength :
             <<IF values[i].t = "null" THEN 0
               ELSE IF values[i] = JBool(TRUE) THEN 2 ELSE 1>>
             \o encodeVarint(NumOf(runLength)) \o BoolRuns(values, i + runLength))

encodeBoolRleColumn(values) == <<BOOL_RLE>> \o BoolRuns(values, 1)

\* the length of a byte string as a varint, then the byte string
LengthPrefixed(bytes) == encodeVarint(NumOf(Len(bytes))) \o bytes

encodeEnumIdsColumn(values) ==
    With(SortStrings({v.s : v \in Range(NonNull(values))}), LAMBDA uniqueStrings :
        <<ENUM_IDS, Len(uniqueStrings) % 256>>
        \o Flatten([i \in DOMAIN uniqueStrings |->
               LengthPrefixed(utf8Encode(uniqueStrings[i]))])
        \o [i \in DOMAIN values |->
               IF values[i].t = "null" THEN 255 ELSE IndexOf(uniqueStrings, values[i].s)])

encodeRawJsonColumn(values) ==
    <<RAW_JSON>> \o
    Flatten([i \in DOMAIN values |-> LengthPrefixed(utf8Encode(Stringify(values[i])))])

IsShortString(v) == v.t = "str" /\ Len(v.s) <= 16 /\ Len(v.s) > 0

\* max - min < nonNullValues.length * 2
IsSequential(nonNullValues) ==
    With({v.n : v \in Range(nonNullValues)}, LAMBDA numbers :
        NumLt(NumSub(NumMax(numbers), NumMin(numbers)), NumOf(Len(nonNullValues) * 2)))

ColumnTypeOf(nonNullValues) ==
    IF Len(nonNullValues) = 0 THEN RAW_JSON
    ELSE IF \A i \in DOMAIN nonNullValues : nonNullValues[i].t = "int"
    THEN IF IsSequential(nonNullValues) THEN DELTA_ZIGZAG ELSE INT_VARINT
    ELSE IF \A i \in DOMAIN nonNullValues : nonNullValues[i].t = "bool" THEN BOOL_RLE
    ELSE IF (\A i \in DOMAIN nonNullValues : IsShortString(nonNullValues[i]))
            /\ Cardinality({v.s : v \in Range(nonNullValues)}) <= 16
    THEN ENUM_IDS
    ELSE RAW_JSON

encodeColumn(values, key) ==
    With(ColumnTypeOf(NonNull(values)), LAMBDA type :
        CASE type = DELTA_ZIGZAG -> encodeDeltaZigzagColumn(values)
          [] type = INT_VARINT -> encodeIntVarintColumn(values)
          [] type = BOOL_RLE -> encodeBoolRleColumn(values)
          [] type = ENUM_IDS -> encodeEnumIdsColumn(values)
          [] OTHER -> encodeRawJsonColumn(values))

\* ------------------------------------------------------------------------
\* Column decoders (src/src/ndjson/columnar.ts; src/unnamed/part_021 holds a
\* copy of them, used by the column readers of the selective decoder)
\* ------------------------------------------------------------------------

\* zigzagDecode(value - 1) for the int32 a varint decoded to
IntOfCode(value) == zigzagDecode(NumSub(NumOf(value), NumOf(1)))

RECURSIVE IntVarintLoop(_, _, _, _)
IntVarintLoop(data, rows, i, offset) ==
    IF i >= rows THEN <<>>
    ELSE With(decodeVarint(data, offset), LAMBDA d :
             <<IF d.value = 0 THEN JNull ELSE JInt(IntOfCode(d.value))>>
             \o IntVarintLoop(data, rows, i + 1, d.newOffset))

decodeIntVarintColumn(data, rows) == IntVarintLoop(data, rows, 0, 0)

RECURSIVE DeltaLoop(_, _, _, _, _)
DeltaLoop(data, rows, i, offset, prev) ==
    IF i >= rows \/ ~Known(prev) THEN <<>>
    ELSE With(decodeVarint(data, offset), LAMBDA d :
             IF d.value = 0
             THEN <<JNull>> \o DeltaLoop(data, rows, i + 1, d.newOffset, prev)
             ELSE With(IF i = 0 THEN IntOfCode(d.value)
                       ELSE NumAdd(prev, IntOfCode(d.value)), LAMBDA cur :
                      <<JInt(cur)>> \o DeltaLoop(data, rows, i + 1, d.newOffset, cur)))

decodeDeltaZigzagColumn(data, rows) == DeltaLoop(data, rows, 0, 0, NumZero)

\* rows stay far below the count at which a sum of 32-bit deltas passes
\* 1000000000000, so no value is rewritten as an ISO date string
RECURSIVE TimeDodLoop(_, _, _, _, _)
TimeDodLoop(data, rows, i, offset, timestamps) ==
    IF i >= rows \/ ~Known(timestamps) THEN <<>>
    ELSE With(decodeVarint(data, offset), LAMBDA d :
             IF d.value = 0
             THEN <<JNull>> \o TimeDodLoop(data, rows, i + 1, d.newOffset,
                                           Append(timestamps, NumZero))
             ELSE With(IF i < 2 THEN IntOfCode(d.value)
                       ELSE NumAdd(timestamps[i],
                                   NumAdd(NumSub(timestamps[i], timestamps[i - 1]),
                                          IntOfCode(d.value))), LAMBDA ts :
                      <<JInt(ts)>> \o TimeDodLoop(data, rows, i + 1, d.newOffset,
                                                  Append(timestamps, ts))))

decodeTimeDodColumn(data, rows) == TimeDodLoop(data, rows, 0, 0, <<>>)

RECURSIVE BoolRleLoop(_, _, _, _)
BoolRleLoop(data, rows, offset, result) ==
    IF Len(result) < rows /\ offset < Len(data)
    THEN With(ByteAt(data, offset), LAMBDA valueCode :
         With(decodeVarint(data, offset + 1), LAMBDA d :
         With(rows - Len(result), LAMBDA room :
             BoolRleLoop(data, rows, d.newOffset,
                 result \o Repeat(IF valueCode = 0 THEN JNull ELSE JBool(valueCode = 2),
                                  IF d.value < room THEN d.value ELSE room)))))
    ELSE result \o Repeat(JNull, rows - Len(result))

decodeBoolRleColumn(data, rows) == BoolRleLoop(data, rows, 0, <<>>)

RECURSIVE EnumStrings(_, _, _, _)
EnumStrings(data, enumCount, i, offset) ==
    IF i >= enumCount THEN [strings |-> <<>>, offset |-> offset]
    ELSE With(decodeVarint(data, offset), LAMBDA d :
         With(EnumStrings(data, enumCount, i + 1, d.newOffset + d.value), LAMBDA rest :
             [strings |-> <<utf8Decode(Slice(data, d.newOffset, d.newOffset + d.value))>>
                          \o rest.strings,
              offset |-> rest.offset]))

\* enumStrings[id] || null
EnumValue(strings, id) ==
    IF id = 255 \/ id = Undef \/ id >= Len(strings) THEN JNull
    ELSE IF strings[id + 1] = <<>> THEN JNull
    ELSE JStr(strings[id + 1])

decodeEnumIdsColumn(data, rows) ==
    With(EnumStrings(data, ByteAt(data, 0), 0, 1), LAMBDA e :
        [i \in 1..rows |-> EnumValue(e.strings, ByteAt(data, e.offset + i - 1))])

RECURSIVE RawJsonLoop(_, _, _, _)
RawJsonLoop(data, rows, i, offset) ==
    IF i >= rows THEN <<>>
    ELSE With(decodeVarint(data, offset), LAMBDA d :
         With(JSONParse(utf8Decode(Slice(data, d.newOffset, d.newOffset + d.value))),
              LAMBDA r :
             <<IF r.ok THEN r.v ELSE JThrow>>
             \o RawJsonLoop(data, rows, i + 1, d.newOffset + d.value)))

decodeRawJsonColumn(data, rows) == RawJsonLoop(data, rows, 0, 0)

decodeColumn(data, rows) ==
    IF Len(data) = 0 THEN Repeat(JNull, rows)
    ELSE With(data[1], LAMBDA type :
         With(Slice(data, 1, Len(data)), LAMBDA payload :
             CASE type = INT_VARINT -> decodeIntVarintColumn(payload, rows)
               [] type = DELTA_ZIGZAG -> decodeDeltaZigzagColumn(payload, rows)
               [] type = TIME_DOD -> decodeTimeDodColumn(payload, rows)
               [] type = BOOL_RLE -> decodeBoolRleColumn(payload, rows)
               [] type = ENUM_IDS -> decodeEnumIdsColumn(payload, rows)
               [] type = RAW_JSON -> decodeRawJsonColumn(payload, rows)
               [] OTHER -> Repeat(JNull, rows)))

\* ------------------------------------------------------------------------
\* Little-endian fields, bitmaps, FNV-1a (src/src/utils.ts, columnar.ts)
\* ------------------------------------------------------------------------

\* DataView.setUint32(_, n, true) for 0 <= n < 2^31
writeU32LE(n) == <<n % 256, (n \div 256) % 256, (n \div 65536) % 256, (n \div (2^24)) % 256>>

\* DataView.getUint32(offset, true); a field above 2^31 - 1 is reported as
\* TooBig, which every reader of the model treats as past the end of its buffer
TooBig == (2^30) + ((2^30) - 1)

readU32LE(b, offset) ==
    IF ByteAt(b, offset + 3) >= 128 THEN TooBig
    ELSE ByteAt(b, offset) + ByteAt(b, offset + 1) * 256
         + ByteAt(b, offset + 2) * 65536 + ByteAt(b, offset + 3) * (2^24)

writeU16LE(n) == <<n % 256, (n \div 256) % 256>>
readU16LE(b, offset) == ByteAt(b, offset) + ByteAt(b, offset + 1) * 256

\* bits[i] goes to bit i % 8 of byte floor(i / 8)
PackBits(bits) ==
    [b \in 1..CeilDiv(Len(bits), 8) |->
        SumPow({j \in 0..7 : 8 * (b - 1) + j < Len(bits) /\ bits[8 * (b - 1) + j + 1]})]

\* (data[byteIdx] >> bitIdx) & 1, an absent byte reading as 0
BitAt(data, i) ==
    With(ByteAt(data, i \div 8), LAMBDA byte :
        byte # Undef /\ (byte \div (2^(i % 8))) % 2 = 1)

Xor16(a, b) == SumPow({i \in 0..15 : ((a \div (2^i)) % 2) # ((b \div (2^i)) % 2)})

\* a 64-bit value as four 16-bit limbs, least significant first
Limbs(x) ==
    LET l1 == x[1] % 65536
        c2 == x[2] + (x[1] \div 65536)
        c3 == x[3] + (c2 \div 65536)
        c4 == x[4] + (c3 \div 65536)
    IN  <<l1, c2 % 65536, c3 % 65536, c4 % 65536>>

\* hash * FNV_PRIME mod 2^64, with FNV_PRIME = 2^40 + 435
FnvMul(h) ==
    Limbs(<<h[1] * 435, h[2] * 435, h[3] * 435 + h[1] * 256, h[4] * 435 + h[2] * 256>>)

RECURSIVE FnvLoop(_, _)
FnvLoop(data, hash) ==
    IF data = <<>> \/ ~Known(hash) THEN hash
    ELSE FnvLoop(Tail(data), FnvMul(<<Xor16(hash[1], Head(data)), hash[2], hash[3], hash[4]>>))

\* FNV_OFFSET_BASIS = 14695981039346656037 = 0xCBF29CE484222325
fnv1a64(data) == FnvLoop(data, <<8997, 33826, 40164, 52210>>)

\* DataView.setBigUint64(_, id, true)
writeU64LE(id) == Flatten([i \in 1..4 |-> <<id[i] % 256, id[i] \div 256>>])

Join(parts, sep) ==
    Flatten([i \in 1..(2 * Len(parts) - 1) |->
        IF i % 2 = 1 THEN parts[(i + 1) \div 2] ELSE sep])

\* Object.keys(obj).sort().join('\u0001')
SortedKeys(obj) == SortStrings(Range(ObjectKeys(obj)))
computeShapeFingerprint(obj) == Join(SortedKeys(obj), <<1>>)
computeShapeId(fingerprint) == fnv1a64(fingerprint)

\* ------------------------------------------------------------------------
\* Columnar frames (src/src/ndjson/columnar.ts)
\* ------------------------------------------------------------------------

encodeLinePresenceBitmap(linePresence) ==
    <<66, 77>> \o writeU32LE(Len(linePresence)) \o PackBits(linePresence)

\* object[key] ?? null for each object of the batch
ColumnValues(objects, key) ==
    [r \in DOMAIN objects |->
        IF HasKey(objects[r], key) THEN Get(objects[r], key) ELSE JNull]

\* the bytes of a byte string after its length as a u32
U32Prefixed(bytes) == writeU32LE(Len(bytes)) \o bytes

BatchBody(objects, shapeId, keys) ==
    <<193>> \o writeU32LE(Len(objects)) \o writeU64LE(shapeId) \o writeU16LE(Len(keys))
    \o Flatten([k \in DOMAIN keys |-> U32Prefixed(utf8Encode(keys[k]))])
    \o PackBits([i \in 1..(Len(keys) * Len(objects)) |->
           HasKey(objects[((i - 1) \div Len(keys)) + 1], keys[((i - 1) % Len(keys)) + 1])])
    \o Flatten([k \in DOMAIN keys |->
           U32Prefixed(encodeColumn(ColumnValues(objects, keys[k]), keys[k]))])

encodeColumnarBatch(objects, shapeId, dict) ==
    IF Len(objects) = 0 THEN <<193, 0, 0, 0, 0, 0, 0, 0, 0, 0, 0>>
    ELSE BatchBody(objects, shapeId,
             SortStrings(UNION {Range(ObjectKeys(objects[r])) : r \in DOMAIN objects}))

RECURSIVE SplitOn(_, _)
SplitOn(text, sep) ==
    IF \E i \in DOMAIN text : text[i] = sep
    THEN LET i == CHOOSE j \in DOMAIN text :
                      text[j] = sep /\ \A m \in 1..(j - 1) : text[m] # sep
         IN  <<SubSeq(text, 1, i - 1)>> \o SplitOn(SubSeq(text, i + 1, Len(text)), sep)
    ELSE <<text>>

\* text.split(/\r?\n/)
SplitLines(text) ==
    With(SplitOn(text, 10), LAMBDA parts :
        [i \in DOMAIN parts |->
            IF i < Len(parts) /\ parts[i] # <<>> /\ parts[i][Len(parts[i])] = 13
            THEN SubSeq(parts[i], 1, Len(parts[i]) - 1)
            ELSE parts[i]])

StripBOM(text) == IF text # <<>> /\ text[1] = 65279 THEN Tail(text) ELSE text

\* the rows of a frame at most, scaled down from 4096
BatchSize == 2

\* an encoder whose loop steps by batchSize and slices one row more
RECURSIVE BatchesWide(_, _, _, _)
BatchesWide(shapeObjects, shapeId, dict, batchSize) ==
    IF shapeObjects = <<>> THEN <<>>
    ELSE <<encodeColumnarBatch(Slice(shapeObjects, 0, batchSize + 1), shapeId, dict)>>
         \o BatchesWide(Slice(shapeObjects, batchSize, Len(shapeObjects)), shapeId, dict,
                        batchSize)

\* the frames of one shape group: slices of at most batchSize rows
RECURSIVE Batches(_, _, _, _)
Batches(shapeObjects, shapeId, dict, batchSize) ==
    IF shapeObjects = <<>> THEN <<>>
    ELSE <<encodeColumnarBatch(Slice(shapeObjects, 0, batchSize), shapeId, dict)>>
         \o Batches(Slice(shapeObjects, batchSize, Len(shapeObjects)), shapeId, dict, batchSize)

\* the fingerprints of the records, each once, in the order of first occurrence
RECURSIVE ShapeOrder(_, _)
ShapeOrder(validObjects, seen) ==
    IF validObjects = <<>> \/ ~Known(seen) THEN seen
    ELSE With(computeShapeFingerprint(Head(validObjects)), LAMBDA f :
             ShapeOrder(Tail(validObjects),
                        IF f \in Range(seen) THEN seen ELSE Append(seen, f)))

\* one entry per line: the parsed value, or absent for a blank or invalid line
ParsedLine(trimmed) ==
    IF Len(trimmed) = 0 THEN [present |-> FALSE, obj |-> JNull]
    ELSE With(JSONParse(trimmed), LAMBDA r :
             IF ~r.ok THEN [present |-> FALSE, obj |-> JNull]
             ELSE [present |-> TRUE, obj |-> r.v])

ParsedLines(input) ==
    With(SplitLines(StripBOM(input)), LAMBDA allLines :
        [i \in DOMAIN allLines |-> ParsedLine(Trim(allLines[i]))])

\* the objects a shape group holds, in input order
ShapeGroup(validObjects, f) ==
    SelectSeq(validObjects, LAMBDA o : computeShapeFingerprint(o) = f)

ShapeFrames(validObjects, shapes, dict, batchSize) ==
    Flatten([g \in DOMAIN shapes |->
        Batches(ShapeGroup(validObjects, shapes[g]), computeShapeId(shapes[g]),
                dict, batchSize)])

\* the valid objects of the input: parsed lines that are neither absent nor null
ValidObjects(parsed) ==
    With(SelectSeq(parsed, LAMBDA e : e.present /\ e.obj.t # "null"), LAMBDA kept :
        [i \in DOMAIN kept |-> kept[i].obj])

ColumnarFrames(parsed, validObjects, input, dict, batchSize) ==
    IF Len(validObjects) < 3 \/ Len(input) < 64 THEN <<>>
    ELSE <<encodeLinePresenceBitmap([i \in DOMAIN parsed |-> parsed[i].present])>>
         \o ShapeFrames(validObjects, ShapeOrder(validObjects, <<>>), dict, batchSize)

encodeNDJSONColumnar(input, dict, batchSize) ==
    With(ParsedLines(input), LAMBDA parsed :
        ColumnarFrames(parsed, ValidObjects(parsed), input, dict, batchSize))

\* ------------------------------------------------------------------------
\* The frame reader and the column readers (src/unnamed/part_021)
\* ------------------------------------------------------------------------

\* a length field, cut at one past the end of its buffer: every bounds test
\* and every subarray gives the same answer for any larger value
ReadLen(b, offset) ==
    With(readU32LE(b, offset), LAMBDA n : IF n > Len(b) THEN Len(b) + 1 ELSE n)

\* a reader that rounds the bits of the presence bitmap down to whole bytes
PresenceBytesFloor(keyCount, rows, limit) ==
    IF rows > 8 * limit THEN limit + 1 ELSE (keyCount * rows) \div 8

\* Math.ceil(keyCount * rows / 8), cut in the same way
PresenceBytes(keyCount, rows, limit) ==
    IF keyCount = 0 \/ rows = 0 THEN 0
    ELSE IF rows > 8 * limit THEN limit + 1
    ELSE CeilDiv(keyCount * rows, 8)

RECURSIVE SkipNewlines(_, _)
SkipNewlines(bytes, offset) ==
    IF offset < Len(bytes) /\ ByteAt(bytes, offset) \in {10, 13}
    THEN SkipNewlines(bytes, offset + 1) ELSE offset

\* the offset after n length-prefixed fields, or Undef where the source throws
RECURSIVE SkipFields(_, _, _)
SkipFields(bytes, frameOffset, n) ==
    IF n = 0 THEN frameOffset
    ELSE IF frameOffset + 4 > Len(bytes) THEN Undef
    ELSE SkipFields(bytes, frameOffset + 4 + ReadLen(bytes, frameOffset), n - 1)

NoFrames == [ok |-> FALSE, frames |-> <<>>]

\* the end of the line-presence frame at offset, or Undef where the source throws
BitmapFrameEnd(bytes, offset) ==
    IF offset + 6 > Len(bytes) THEN Undef
    ELSE With(offset + 6 + PresenceBytes(1, readU32LE(bytes, offset + 2), Len(bytes)),
              LAMBDA frameEnd : IF frameEnd > Len(bytes) THEN Undef ELSE frameEnd)

\* the end of the columnar frame at offset, or Undef where the source throws
ColumnarFrameEnd(bytes, offset) ==
    IF offset + 15 > Len(bytes) THEN Undef
    ELSE With(readU16LE(bytes, offset + 13), LAMBDA keyCount :
         With(SkipFields(bytes, offset + 15, keyCount), LAMBDA afterKeys :
             IF afterKeys = Undef THEN Undef
             ELSE With(SkipFields(bytes,
                           afterKeys + PresenceBytes(keyCount, readU32LE(bytes, offset + 1),
                                                     Len(bytes)),
                           keyCount), LAMBDA frameEnd :
                      IF frameEnd = Undef \/ frameEnd > Len(bytes) THEN Undef
                      ELSE frameEnd)))

RECURSIVE FramesLoop(_, _, _)
FramesLoop(bytes, start, frames) ==
    With(SkipNewlines(bytes, start), LAMBDA offset :
        IF offset >= Len(bytes) \/ ~Known(frames) THEN [ok |-> TRUE, frames |-> frames]
        ELSE With(IF ByteAt(bytes, offset) = 66 /\ offset + 1 < Len(bytes)
                     /\ ByteAt(bytes, offset + 1) = 77
                  THEN BitmapFrameEnd(bytes, offset)
                  ELSE IF ByteAt(bytes, offset) # 193 THEN Undef
                  ELSE ColumnarFrameEnd(bytes, offset), LAMBDA frameEnd :
                 IF frameEnd = Undef THEN NoFrames
                 ELSE FramesLoop(bytes, frameEnd,
                          Append(frames, Slice(bytes, offset, frameEnd)))))

parseColumnarFrames(bytes) == FramesLoop(bytes, 0, <<>>)

NoBitset == [defined |-> FALSE, data |-> <<>>, length |-> 0]

parseLinePresenceBitmap(frame) ==
    With(PresenceBytes(1, readU32LE(frame, 2), Len(frame)), LAMBDA bitmapBytes :
        IF Len(frame) < 6 \/ frame[1] # 66 \/ frame[2] # 77 \/ Len(frame) < 6 + bitmapBytes
        THEN [ok |-> FALSE, bits |-> NoBitset]
        ELSE [ok |-> TRUE,
              bits |-> [defined |-> TRUE, data |-> Slice(frame, 6, 6 + bitmapBytes),
                        length |-> readU32LE(frame, 2)]])

\* BitsetImpl.get
BitsetGet(bits, i) == IF i >= bits.length THEN FALSE ELSE BitAt(bits.data, i)

\* n length-prefixed fields from offset: their contents and the offset after
\* them; ok is FALSE where DataView.getUint32 reads past the frame and throws
RECURSIVE ReadFields(_, _, _)
ReadFields(frame, offset, n) ==
    IF n = 0 THEN [ok |-> TRUE, fields |-> <<>>, offset |-> offset]
    ELSE IF offset + 4 > Len(frame) THEN [ok |-> FALSE, fields |-> <<>>, offset |-> offset]
    ELSE With(ReadLen(frame, offset), LAMBDA len :
         With(ReadFields(frame, offset + 4 + len, n - 1), LAMBDA rest :
             [ok |-> rest.ok,
              fields |-> <<Slice(frame, offset + 4, offset + 4 + len)>> \o rest.fields,
              offset |-> rest.offset]))

NoWindow == [numRows |-> 0, keyOrder |-> <<>>, presence |-> <<>>, columns |-> <<>>,
             linePresence |-> NoBitset]

NoWindowRead == [ok |-> FALSE, window |-> NoWindow]

\* the presence bits and the columns of a frame whose keys have been read
FrameBody(frame, linePresence, rows, keyFields) ==
    With(PresenceBytes(Len(keyFields.fields), rows, Len(frame)), LAMBDA presenceBytes :
    With(ReadFields(frame, keyFields.offset + presenceBytes, Len(keyFields.fields)),
         LAMBDA columns :
        IF ~keyFields.ok \/ ~columns.ok THEN NoWindowRead
        ELSE [ok |-> TRUE,
              window |-> [numRows |-> rows,
                          keyOrder |-> [i \in DOMAIN keyFields.fields |->
                                           utf8Decode(keyFields.fields[i])],
                          presence |-> Slice(frame, keyFields.offset,
                                             keyFields.offset + presenceBytes),
                          columns |-> columns.fields,
                          linePresence |-> linePresence]]))

\* [ok, window]: window.numRows = 0 stands for the null the source returns
parseColumnarFrame(frame, linePresence) ==
    IF Len(frame) < 15 \/ frame[1] # 193 THEN [ok |-> TRUE, window |-> NoWindow]
    ELSE IF readU32LE(frame, 1) = 0 THEN [ok |-> TRUE, window |-> NoWindow]
    ELSE FrameBody(frame, linePresence, readU32LE(frame, 1),
                   ReadFields(frame, 15, readU16LE(frame, 13)))

NoWindows == [ok |-> FALSE, windows |-> <<>>]

RECURSIVE WindowsLoop(_, _, _)
WindowsLoop(frames, linePresence, windows) ==
    IF frames = <<>> \/ ~Known(windows) THEN [ok |-> TRUE, windows |-> windows]
    ELSE IF Len(Head(frames)) >= 2 /\ Head(frames)[1] = 66 /\ Head(frames)[2] = 77
    THEN With(parseLinePresenceBitmap(Head(frames)), LAMBDA bm :
             IF ~bm.ok THEN NoWindows
             ELSE WindowsLoop(Tail(frames), bm.bits, windows))
    ELSE With(parseColumnarFrame(Head(frames), linePresence), LAMBDA w :
             IF ~w.ok THEN NoWindows
             ELSE WindowsLoop(Tail(frames), linePresence,
                      IF w.window.numRows = 0 THEN windows
                      ELSE Append(windows, w.window)))

\* [ok, windows, keySet]; ok is FALSE where the source throws
openColumnar(payload) ==
    With(parseColumnarFrames(payload), LAMBDA frames :
    With(WindowsLoop(frames.frames, NoBitset, <<>>), LAMBDA h :
        IF ~frames.ok \/ ~h.ok THEN [ok |-> FALSE, windows |-> <<>>, keySet |-> {}]
        ELSE [ok |-> TRUE, windows |-> h.windows,
              keySet |-> UNION {Range(h.windows[i].keyOrder) : i \in DOMAIN h.windows}]))

isColumnarPayload(buf) ==
    /\ Len(buf) >= 1
    /\ (buf[1] = 193 \/ (Len(buf) >= 2 /\ buf[1] = 66 /\ buf[2] = 77))

\* WindowImpl.getReader(field): the index of the reader held by the Map under
\* that key (the last column of that name), 0 for null
getReader(w, field) ==
    IF \E i \in DOMAIN w.keyOrder : w.keyOrder[i] = field
    THEN CHOOSE i \in DOMAIN w.keyOrder :
             w.keyOrder[i] = field /\ \A j \in DOMAIN w.keyOrder : w.keyOrder[j] = field => j <= i
    ELSE 0

\* SimpleColumnReader.present(i) of reader r of window w
present(w, r, i) ==
    IF i >= w.numRows THEN FALSE
    ELSE BitAt(w.presence, i * Len(w.keyOrder) + (r - 1))

\* SimpleColumnReader.getValue(i): the column is decoded on first use
getValue(w, r, i) ==
    With(decodeColumn(w.columns[r], w.numRows), LAMBDA values :
        IF i < Len(values) THEN values[i + 1] ELSE JNull)

\* ------------------------------------------------------------------------
\* Canonicalisation and the per-record transforms (src/unnamed/part_021,
\* src/src/transform.ts)
\* ------------------------------------------------------------------------

\* the keys that out[k] = ... leaves as own properties of out = {}
Assignable(keys) == SelectSeq(keys, LAMBDA k : k # ProtoKey)

RECURSIVE stableSortKeys(_)
stableSortKeys(obj) ==
    IF obj.t = "arr"
    THEN [obj EXCEPT !.kids = [i \in DOMAIN obj.kids |->
              [k |-> <<>>, v |-> stableSortKeys(obj.kids[i].v)]]]
    ELSE IF obj.t = "obj"
    THEN With(Assignable(SortedKeys(obj)), LAMBDA keys :
             [obj EXCEPT !.kids = [i \in DOMAIN keys |->
                  [k |-> keys[i], v |-> stableSortKeys(Get(obj, keys[i]))]]])
    ELSE obj

canonicalize(json) == stableSortKeys(json)

\* rebuilds arrays and objects member by member; every number JSON.parse returns
\* for a text without exponents is finite and is kept
RECURSIVE safeNumericCanonicalize(_)
safeNumericCanonicalize(json) ==
    IF json.t \in {"arr", "obj"}
    THEN With(SelectSeq(json.kids, LAMBDA m : m.k # ProtoKey), LAMBDA members :
             [json EXCEPT !.kids = [i \in DOMAIN members |->
                  [k |-> members[i].k, v |-> safeNumericCanonicalize(members[i].v)]]])
    ELSE json

\* a key dictionary is the JSON object {forward: {...}, inverse: {...}}, or JNull
\* table[k] when the table holds a string under k, else k
MappedKey(table, k) ==
    IF HasKey(table, k) /\ Get(table, k).t = "str" THEN Get(table, k).s ELSE k

RECURSIVE MapKeys(_, _)
RECURSIVE MapMembers(_, _, _, _)

MapMembers(obj, table, i, out) ==
    IF i > Len(obj.kids) \/ ~Known(out) THEN out
    ELSE MapMembers(obj, table, i + 1,
             SetKey(out, MappedKey(table, obj.kids[i].k), MapKeys(obj.kids[i].v, table)))

MapKeys(obj, table) ==
    IF obj.t = "arr"
    THEN [obj EXCEPT !.kids = [i \in DOMAIN obj.kids |->
              [k |-> <<>>, v |-> MapKeys(obj.kids[i].v, table)]]]
    ELSE IF obj.t = "obj" THEN MapMembers(obj, table, 1, JObj(<<>>))
    ELSE obj

DictTable(dict, side) ==
    IF dict.t = "obj" /\ HasKey(dict, side) THEN Get(dict, side) ELSE JObj(<<>>)

applyKeyDict(obj, dict) ==
    IF dict.t = "null" THEN obj ELSE MapKeys(obj, DictTable(dict, <<102, 111, 114, 119, 97, 114, 100>>))

invertKeyDict(obj, dict) ==
    IF dict.t = "null" THEN obj ELSE MapKeys(obj, DictTable(dict, <<105, 110, 118, 101, 114, 115, 101>>))

compactStringify(obj) == Stringify(obj)

\* [ok, bytes]: ok is FALSE where JSON.parse throws
runEncodeTransforms(text, keyDict) ==
    With(JSONParse(text), LAMBDA json :
        IF ~json.ok THEN [ok |-> FALSE, bytes |-> <<>>]
        ELSE [ok |-> TRUE,
              bytes |-> utf8Encode(compactStringify(
                  applyKeyDict(safeNumericCanonicalize(canonicalize(json.v)), keyDict)))])

\* [ok, text]
runDecodeTransforms(bytes, keyDict) ==
    With(JSONParse(utf8Decode(bytes)), LAMBDA json :
        IF ~json.ok THEN [ok |-> FALSE, text |-> <<>>]
        ELSE [ok |-> TRUE, text |-> compactStringify(invertKeyDict(json.v, keyDict))])

\* ------------------------------------------------------------------------
\* Row-wise NDJSON (src/src/ndjson.ts)
\* ------------------------------------------------------------------------

\* [ok, chunks]: one chunk per line; ok is FALSE where a line's transform throws
LineChunk(line, dict) ==
    IF Len(Trim(line)) = 0 THEN [ok |-> TRUE, bytes |-> utf8Encode(line)]
    ELSE IF dict.t = "null" /\ JSONParse(Trim(line)).ok
    THEN [ok |-> TRUE, bytes |-> utf8Encode(line)]
    ELSE runEncodeTransforms(Trim(line), dict)

encodeNDJSON(text, dict) ==
    With(SplitLines(StripBOM(text)), LAMBDA lines :
    With([i \in DOMAIN lines |-> LineChunk(lines[i], dict)], LAMBDA chunks :
        [ok |-> \A i \in DOMAIN chunks : chunks[i].ok,
         chunks |-> [i \in DOMAIN chunks |-> chunks[i].bytes]]))

\* ------------------------------------------------------------------------
\* CRC-32 and the container (src/src/container.ts)
\* ------------------------------------------------------------------------

Xor4 == [a \in 0..15 |-> [b \in 0..15 |->
            SumPow({i \in 0..3 : ((a \div (2^i)) % 2) # ((b \div (2^i)) % 2)})]]

Xor8(a, b) == 16 * Xor4[a \div 16][b \div 16] + Xor4[a % 16][b % 16]

\* 0xEDB88320 as its set of bits
CrcPoly == {5, 8, 9, 15, 19, 20, 21, 23, 24, 26, 27, 29, 30, 31}

RECURSIVE CrcShift(_, _)
CrcShift(bits, j) ==
    IF j = 0 THEN bits
    ELSE LET shifted == {i - 1 : i \in bits \ {0}}
         IN  CrcShift(IF 0 \in bits
                      THEN (shifted \ CrcPoly) \cup (CrcPoly \ shifted)
                      ELSE shifted, j - 1)

\* the four bytes of a 32-bit set of bits, least significant first
BitsToBytes(bits) == [k \in 1..4 |-> SumPow({i - 8 * (k - 1) : i \in bits \cap ((8 * (k - 1))..(8 * k - 1))})]

CrcTable == [i \in 0..255 |-> BitsToBytes(CrcShift({b \in 0..7 : (i \div (2^b)) % 2 = 1}, 8))]

\* the bytes data[i..j] folded into the running CRC
RECURSIVE CrcBlock(_, _, _, _)
CrcBlock(data, i, j, crc) ==
    IF i > j \/ ~Known(crc) THEN crc
    ELSE With(CrcTable[Xor8(crc[1], data[i])], LAMBDA t :
             CrcBlock(data, i + 1, j,
                 <<Xor8(t[1], crc[2]), Xor8(t[2], crc[3]), Xor8(t[3], crc[4]), t[4]>>))

\* the loop over the data, sixteen bytes to a step
RECURSIVE CrcLoop(_, _, _)
CrcLoop(data, i, crc) ==
    IF i > Len(data) \/ ~Known(crc) THEN crc
    ELSE CrcLoop(data, i + 16,
             CrcBlock(data, i, IF i + 15 > Len(data) THEN Len(data) ELSE i + 15, crc))

\* a checksum that leaves out the last byte of the data
crc32Short(data) ==
    With(CrcLoop(SubSeq(data, 1, Len(data) - 1), 1, <<255, 255, 255, 255>>), LAMBDA crc :
        [k \in 1..4 |-> Xor8(crc[k], 255)])

\* the CRC as the four bytes writeU32LE gives it
crc32(data) ==
    With(CrcLoop(data, 1, <<255, 255, 255, 255>>), LAMBDA crc :
        [k \in 1..4 |-> Xor8(crc[k], 255)])

MAGIC == <<74, 67, 79, 49>>

encodeContainer(header, body) ==
    MAGIC \o U32Prefixed(utf8Encode(Stringify(header))) \o crc32(body) \o body

NoContainer(msg) == [ok |-> FALSE, err |-> msg, header |-> JNull, body |-> <<>>]

K_version == <<118, 101, 114, 115, 105, 111, 110>>

\* the checks on a parsed header and on the CRC of the body
CheckedContainer(header, storedCrc, body) ==
    IF ~header.ok THEN NoContainer("SyntaxError")
    ELSE IF header.v.t = "null" THEN NoContainer("TypeError")
    ELSE IF ~(HasKey(header.v, K_version) /\ Get(header.v, K_version) = JInt(NumOf(1)))
    THEN NoContainer("Unsupported container version")
    ELSE IF storedCrc # crc32(body) THEN NoContainer("CRC mismatch")
    ELSE [ok |-> TRUE, err |-> "", header |-> header.v, body |-> body]

\* [ok, err, header, body]
decodeContainer(bytes) ==
    IF Len(bytes) < 12 THEN NoContainer("Invalid container: too short")
    ELSE IF Slice(bytes, 0, 4) # MAGIC THEN NoContainer("Invalid container: bad magic")
    ELSE With(8 + ReadLen(bytes, 4), LAMBDA headerEnd :
             IF headerEnd + 4 > Len(bytes)
             THEN NoContainer("Invalid container: header length")
             ELSE CheckedContainer(JSONParse(utf8Decode(Slice(bytes, 8, headerEnd))),
                                   Slice(bytes, headerEnd, headerEnd + 4),
                                   Slice(bytes, headerEnd + 4, Len(bytes))))

\* ------------------------------------------------------------------------
\* Back-ends (src/src/codecs/index.ts, src/unnamed/part_013, src/SECURITY.md)
\*
\* zlib is outside the repository.  Its gzip stream is stood for by a member
\* header, run-length pairs (count, byte) closed by a zero count, and the
\* length of the data; its brotli stream by a marker, the length, the data
\* and an end byte.  Both decoders reject what their encoder cannot have
\* written; gunzip reads on where another member follows and ignores other
\* trailing bytes.
\* ------------------------------------------------------------------------

GzHeader == <<31, 139, 8, 0, 0, 0, 0, 0, 0, 3>>

\* one pair per run of equal bytes (a run of the model is shorter than 256)
RleEncode(data) ==
    LET starts == SelectSeq([i \in DOMAIN data |-> i],
                            LAMBDA i : i = 1 \/ data[i] # data[i - 1])
        stop(k) == IF k = Len(starts) THEN Len(data) + 1 ELSE starts[k + 1]
    IN  [j \in 1..(2 * Len(starts)) |->
            IF j % 2 = 1 THEN stop((j + 1) \div 2) - starts[(j + 1) \div 2]
            ELSE data[starts[j \div 2]]]

gzipEncode(data) == GzHeader \o RleEncode(data) \o <<0>> \o writeU32LE(Len(data))

\* the pairs from offset to the zero count: [ok, data, offset]
RleDecode(bytes, offset) ==
    With({k \in 0..Len(bytes) : ByteAt(bytes, offset + 2 * k) = 0
             /\ \A m \in 0..(k - 1) : ByteAt(bytes, offset + 2 * m) > 0}, LAMBDA ends :
        IF ends = {} THEN [ok |-> FALSE, data |-> <<>>, offset |-> offset]
        ELSE With(CHOOSE e \in ends : TRUE, LAMBDA k :
                 [ok |-> TRUE,
                  data |-> Flatten([m \in 1..k |->
                               Repeat(ByteAt(bytes, offset + 2 * m - 1),
                                      ByteAt(bytes, offset + 2 * m - 2))]),
                  offset |-> offset + 2 * k + 1]))

NoData == [ok |-> FALSE, data |-> <<>>]

\* [ok, data]
RECURSIVE GunzipFrom(_, _)
GunzipFrom(bytes, offset) ==
    IF Slice(bytes, offset, offset + 10) # GzHeader THEN NoData
    ELSE With(RleDecode(bytes, offset + 10), LAMBDA body :
         With(body.offset + 4, LAMBDA next :
             IF ~body.ok \/ next > Len(bytes) THEN NoData
             ELSE IF Slice(bytes, body.offset, next) # writeU32LE(Len(body.data)) THEN NoData
             ELSE IF ByteAt(bytes, next) = 31 /\ ByteAt(bytes, next + 1) = 139
             THEN With(GunzipFrom(bytes, next), LAMBDA more :
                      IF more.ok THEN [ok |-> TRUE, data |-> body.data \o more.data]
                      ELSE NoData)
             ELSE [ok |-> TRUE, data |-> body.data]))

gzipDecode(bytes) == GunzipFrom(bytes, 0)

brotliEncode(data) == <<11>> \o writeU32LE(Len(data)) \o data \o <<3>>

\* [ok, data]; trailing says what the decoder does with bytes after the end
\* of the stream: "ignore" or "error"
brotliDecode(bytes, trailing) ==
    With(ReadLen(bytes, 1), LAMBDA n :
        IF Len(bytes) < 6 \/ bytes[1] # 11 \/ Len(bytes) < n + 6 \/ ByteAt(bytes, n + 5) # 3
        THEN NoData
        ELSE IF Len(bytes) > n + 6 /\ trailing = "error" THEN NoData
        ELSE [ok |-> TRUE, data |-> Slice(bytes, 5, 5 + n)])

SCOUT_SIZE == 4096

\* 64 * 1024 in the source; scaled down so that inputs of the model span
\* several windows
CHUNK_SIZE == 32

Smaller(a, b) == IF Len(b) < Len(a) THEN b ELSE a

\* the name of the candidate with the fewest bytes on the scout, brotli first
chooseWindowCodec(windowData) ==
    With(Slice(windowData, 0, IF SCOUT_SIZE < Len(windowData) THEN SCOUT_SIZE
                              ELSE Len(windowData)), LAMBDA scout :
        IF Len(gzipEncode(scout)) < Len(brotliEncode(scout)) THEN "gzip" ELSE "brotli")

\* the window cut from one chunk
HybridWindow(chunk, choice) ==
    With(IF choice = "gzip" THEN gzipEncode(chunk) ELSE brotliEncode(chunk),
         LAMBDA compressed :
        [data |-> compressed, chosenCodec |-> choice, originalSize |-> Len(chunk),
         compressedSize |-> Len(compressed)])

RECURSIVE HybridWindows(_)
HybridWindows(data) ==
    IF data = <<>> THEN <<>>
    ELSE With(Slice(data, 0, CHUNK_SIZE), LAMBDA chunk :
             <<HybridWindow(chunk, chooseWindowCodec(chunk))>>
             \o HybridWindows(Slice(data, CHUNK_SIZE, Len(data))))

HYB1 == <<72, 89, 66, 49>>

\* the number of windows that chose codec c
WindowCount(windows, c) == Cardinality({i \in DOMAIN windows : windows[i].chosenCodec = c})

\* the entry the stable sort by descending count puts first
MajorityCodec(windows) ==
    With(windows[1].chosenCodec, LAMBDA first :
        IF WindowCount(windows, first) * 2 >= Len(windows) THEN first
        ELSE IF first = "gzip" THEN "brotli" ELSE "gzip")

\* the envelope of the windows
HybridEnvelope(windows) ==
    HYB1 \o writeU32LE(Len(windows))
    \o Flatten([i \in DOMAIN windows |->
           <<IF windows[i].chosenCodec = "gzip" THEN 1 ELSE 0>>
           \o writeU32LE(windows[i].originalSize)
           \o writeU32LE(windows[i].compressedSize)
           \o windows[i].data])

hybridEncode(data) ==
    With(HybridWindows(data), LAMBDA windows :
    With(Len(HybridEnvelope(windows)), LAMBDA windowedTotalSize :
    With(IF Len(windows) > 1 THEN MajorityCodec(windows) ELSE "brotli", LAMBDA majorityCodec :
    With(Smaller(brotliEncode(data), gzipEncode(data)), LAMBDA solidBest :
    With(IF majorityCodec = "gzip" THEN gzipEncode(data) ELSE brotliEncode(data),
         LAMBDA coalescedData :
        IF Len(windows) > 1 /\ WindowCount(windows, majorityCodec) * 10 >= Len(windows) * 9
           /\ Len(coalescedData) + 20 < windowedTotalSize
        THEN coalescedData
        ELSE IF Len(solidBest) + 20 < windowedTotalSize THEN solidBest
        ELSE HybridEnvelope(windows))))))

\* the windows of a HYB1 envelope from offset: [ok, data]
RECURSIVE HybridChunks(_, _, _, _)
HybridChunks(bytes, offset, n, trailing) ==
    IF n = 0 THEN [ok |-> TRUE, data |-> <<>>]
    ELSE IF offset + 9 > Len(bytes) THEN NoData
    ELSE With(ByteAt(bytes, offset), LAMBDA codecByte :
         With(ReadLen(bytes, offset + 5), LAMBDA compSize :
         With(Slice(bytes, offset + 9, offset + 9 + compSize), LAMBDA compressedData :
         With(IF codecByte = 1 THEN gzipDecode(compressedData)
              ELSE IF codecByte = 2 THEN NoData
              ELSE brotliDecode(compressedData, trailing), LAMBDA d :
             IF ~d.ok THEN NoData
             ELSE With(HybridChunks(bytes, offset + 9 + compSize, n - 1, trailing),
                       LAMBDA rest :
                      IF rest.ok THEN [ok |-> TRUE, data |-> d.data \o rest.data]
                      ELSE NoData)))))

\* a decoder whose fallback tries the first back-end alone
hybridDecodeFirstOnly(bytes, trailing) ==
    With(Slice(bytes, 0, 4), LAMBDA magic :
        IF Len(bytes) = 0 THEN [ok |-> TRUE, data |-> <<>>]
        ELSE IF magic = HYB1
        THEN IF Len(bytes) < 8 THEN NoData
             ELSE HybridChunks(bytes, 8, ReadLen(bytes, 4), trailing)
        ELSE brotliDecode(bytes, trailing))

hybridDecode(bytes, trailing) ==
    With(Slice(bytes, 0, 4), LAMBDA magic :
        IF Len(bytes) = 0 THEN [ok |-> TRUE, data |-> <<>>]
        ELSE IF magic = <<83, 79, 76, 73>>
        THEN With(ByteAt(bytes, 4), LAMBDA codecByte :
                 IF codecByte # 68 THEN NoData
                 ELSE IF codecByte = 1 THEN gzipDecode(Slice(bytes, 5, Len(bytes)))
                 ELSE IF codecByte = 2 THEN NoData
                 ELSE brotliDecode(Slice(bytes, 5, Len(bytes)), trailing))
        ELSE IF magic = HYB1
        THEN IF Len(bytes) < 8 THEN NoData
             ELSE HybridChunks(bytes, 8, ReadLen(bytes, 4), trailing)
        ELSE With(brotliDecode(bytes, trailing), LAMBDA b :
                 IF b.ok THEN b ELSE gzipDecode(bytes)))

\* the names of the registry
CodecNames == {"gzip", "brotli", "identity", "zstd", "hybrid"}

\* codecs[name].encode(data): [ok, data]; zstd is disabled unless the process
\* is started with JSON_OPT_ENABLE_ZSTD=1 and the optional module installed
codecEncode(name, data) ==
    CASE name = "gzip" -> [ok |-> TRUE, data |-> gzipEncode(data)]
      [] name = "brotli" -> [ok |-> TRUE, data |-> brotliEncode(data)]
      [] name = "identity" -> [ok |-> TRUE, data |-> data]
      [] name = "hybrid" -> [ok |-> TRUE, data |-> hybridEncode(data)]
      [] OTHER -> NoData

\* codecs[name].decode(bytes): [ok, data]
codecDecode(name, bytes, trailing) ==
    CASE name = "gzip" -> gzipDecode(bytes)
      [] name = "brotli" -> brotliDecode(bytes, trailing)
      [] name = "identity" -> [ok |-> TRUE, data |-> bytes]
      [] name = "hybrid" -> hybridDecode(bytes, trailing)
      [] OTHER -> [ok |-> FALSE, data |-> <<>>]

\* chooseCodecSample on the first 4096 bytes
chooseCodec(data) ==
    LET probe == Slice(data, 0, IF Len(data) < 4096 THEN Len(data) ELSE 4096)
    IN  IF Len(brotliEncode(probe)) <= Len(gzipEncode(probe)) THEN "brotli" ELSE "gzip"

\* ------------------------------------------------------------------------
\* The public operations (src/src/index.ts)
\* ------------------------------------------------------------------------

\* the code units of the names of the registry
CodecChars(name) ==
    CASE name = "gzip" -> <<103, 122, 105, 112>>
      [] name = "brotli" -> <<98, 114, 111, 116, 108, 105>>
      [] name = "identity" -> <<105, 100, 101, 110, 116, 105, 116, 121>>
      [] name = "zstd" -> <<122, 115, 116, 100>>
      [] name = "hybrid" -> <<104, 121, 98, 114, 105, 100>>
      [] OTHER -> <<>>

\* the name a header's codec field spells, "" where it is not in the registry
CodecOfChars(chars) ==
    IF \E name \in CodecNames : CodecChars(name) = chars
    THEN CHOOSE name \in CodecNames : CodecChars(name) = chars
    ELSE ""

K_codec == <<99, 111, 100, 101, 99>>
K_createdAt == <<99, 114, 101, 97, 116, 101, 100, 65, 116>>
K_ndjson == <<110, 100, 106, 115, 111, 110>>
K_keyDictInline == <<107, 101, 121, 68, 105, 99, 116, 73, 110, 108, 105, 110, 101>>
K_keyDict == <<107, 101, 121, 68, 105, 99, 116>>
K_options == <<111, 112, 116, 105, 111, 110, 115>>

\* the header object both compress and compressNDJSON build; a member whose
\* value is undefined is left out by JSON.stringify
Header(chosen, createdAt, ndjson, keyDict) ==
    JObj(<<[k |-> K_version, v |-> JInt(NumOf(1))],
           [k |-> K_codec, v |-> JStr(CodecChars(chosen))],
           [k |-> K_createdAt, v |-> JStr(createdAt)],
           [k |-> K_ndjson, v |-> JBool(ndjson)],
           [k |-> K_keyDictInline, v |-> JBool(keyDict.t # "null")]>>
         \o (IF keyDict.t # "null" THEN <<[k |-> K_keyDict, v |-> keyDict]>> ELSE <<>>)
         \o <<[k |-> K_options, v |-> JObj(<<>>)]>>)

\* header.keyDictInline ? header.keyDict ?? null : null
HeaderDict(header) ==
    IF HasKey(header, K_keyDictInline) /\ Get(header, K_keyDictInline) = JBool(TRUE)
       /\ HasKey(header, K_keyDict)
    THEN Get(header, K_keyDict) ELSE JNull

HeaderCodec(header) ==
    IF HasKey(header, K_codec) /\ Get(header, K_codec).t = "str"
    THEN CodecOfChars(Get(header, K_codec).s) ELSE ""

\* names for which  name in codecs  holds although the registry has no such
\* codec: the properties the registry object inherits
InheritedNames == {"constructor", "toString", "valueOf", "hasOwnProperty"}

\* a selection where the variable, when it names a codec, goes before the option
CodecNameEnvFirst(opts) ==
    IF opts.env # "" /\ opts.env \in CodecNames \cup InheritedNames THEN opts.env
    ELSE IF opts.codec # "" THEN opts.codec
    ELSE "brotli"

\* opts.codec ?? (envCodec && envCodec in codecs ? envCodec : 'brotli');
\* an option or variable that is not set is ""
CodecName(opts) ==
    IF opts.codec # "" THEN opts.codec
    ELSE IF opts.env # "" /\ opts.env \in CodecNames \cup InheritedNames THEN opts.env
    ELSE "brotli"

\* packed: what a compress call has reached.  bytes is the container, payload
\* the bytes handed to the back-end, chunks the encoder's chunks, codec the
\* back-end that ran; results, busy, queue and base are the pool's tasks, flipped
\* the bit of the container changed after it was made (0 for none); ok is
\* FALSE where the promise is rejected
NothingPacked ==
    [ok |-> FALSE, bytes |-> <<>>, payload |-> <<>>, chunks |-> <<>>, codec |-> "",
     results |-> <<>>, busy |-> {}, queue |-> <<>>, base |-> 0, flipped |-> 0]

\* codecName === 'auto' ? chooseCodec(bytes) : codecName
ChosenCodec(opts, bytes) ==
    IF CodecName(opts) = "auto" THEN chooseCodec(bytes) ELSE CodecName(opts)

\* the container of a compressed body, where the steps before it succeeded
Packed(ok, payload, chunks, chosen, opts, ndjson, compressed) ==
    IF ~ok \/ ~compressed.ok THEN NothingPacked
    ELSE [NothingPacked EXCEPT
             !.ok = TRUE, !.payload = payload, !.chunks = chunks, !.codec = chosen,
             !.bytes = encodeContainer(
                 Header(chosen, opts.createdAt, ndjson, opts.keyDict), compressed.data)]

compress(inputJson, opts) ==
    With(ChosenCodec(opts, utf8Encode(inputJson)), LAMBDA chosen :
    With(runEncodeTransforms(inputJson, opts.keyDict), LAMBDA transformed :
        Packed(transformed.ok, transformed.bytes, <<>>, chosen, opts, FALSE,
               codecEncode(chosen, transformed.bytes))))

NoText(msg) == [ok |-> FALSE, err |-> msg, text |-> <<>>]

\* [ok, err, text]
decompress(containerBytes, trailing) ==
    With(decodeContainer(containerBytes), LAMBDA c :
        IF ~c.ok THEN NoText(c.err)
        ELSE With(codecDecode(HeaderCodec(c.header), c.body, trailing), LAMBDA transformed :
                 IF ~transformed.ok THEN NoText("codec")
                 ELSE With(runDecodeTransforms(transformed.data, HeaderDict(c.header)),
                           LAMBDA r :
                          IF ~r.ok THEN NoText("SyntaxError")
                          ELSE [ok |-> TRUE, err |-> "", text |-> r.text])))

\* the names every plain object answers to through Object.prototype
ObjectPrototypeKeys ==
    {<<99, 111, 110, 115, 116, 114, 117, 99, 116, 111, 114>>,
     <<116, 111, 83, 116, 114, 105, 110, 103>>,
     <<118, 97, 108, 117, 101, 79, 102>>,
     <<104, 97, 115, 79, 119, 110, 80, 114, 111, 112, 101, 114, 116, 121>>,
     ProtoKey}

\* the full decode's loop over w.keyOrder for row i, from key j on:
\* [ok, err, obj]
NoRow(msg, obj) == [ok |-> FALSE, err |-> msg, obj |-> obj]

RECURSIVE FullRow(_, _, _, _)
FullRow(w, i, j, obj) ==
    IF j > Len(w.keyOrder) \/ ~Known(obj) THEN [ok |-> TRUE, err |-> "", obj |-> obj]
    ELSE With(getReader(w, w.keyOrder[j]), LAMBDA r :
             IF r # 0 /\ present(w, r, i)
             THEN With(getValue(w, r, i), LAMBDA v :
                      IF v.t = "throw" THEN NoRow("SyntaxError", obj)
                      ELSE FullRow(w, i, j + 1, SetKey(obj, w.keyOrder[j], v)))
             ELSE FullRow(w, i, j + 1, obj))

\* the selective decode's loop over the wanted fields for row i: readers[k]
\* is the window's reader, or what the empty object inherits under that name,
\* which has no present method
RECURSIVE SelectRow(_, _, _, _, _)
SelectRow(w, i, want, j, obj) ==
    IF j > Len(want) \/ ~Known(obj) THEN [ok |-> TRUE, err |-> "", obj |-> obj]
    ELSE With(getReader(w, want[j]), LAMBDA r :
             IF r = 0 /\ want[j] \in ObjectPrototypeKeys THEN NoRow("TypeError", obj)
             ELSE IF r # 0 /\ present(w, r, i)
             THEN With(getValue(w, r, i), LAMBDA v :
                      IF v.t = "throw" THEN NoRow("SyntaxError", obj)
                      ELSE SelectRow(w, i, want, j + 1, SetKey(obj, want[j], v)))
             ELSE SelectRow(w, i, want, j + 1, obj))

\* a decoder that takes opts.fields as it is passed
WantAsPassed(opts) == [defined |-> opts.passed, fields |-> opts.fields]

\* const want = (opts?.fields?.length ? opts.fields : undefined); opts is
\* [passed, fields], passed FALSE for a call without fields
Want(opts) ==
    IF opts.passed /\ Len(opts.fields) > 0 THEN [defined |-> TRUE, fields |-> opts.fields]
    ELSE [defined |-> FALSE, fields |-> <<>>]

\* the rows of every window in order, each [ok, err, obj]; the full decode
\* where want is undefined
DecodedRows(windows, want) ==
    Flatten([n \in DOMAIN windows |->
        [i \in 1..windows[n].numRows |->
            IF ~want.defined THEN FullRow(windows[n], i - 1, 1, JObj(<<>>))
            ELSE SelectRow(windows[n], i - 1, want.fields, 1, JObj(<<>>))]])

\* the lines put back under the line-presence bitmap of the first window
\* a decoder that emits the decoded records alone
ReconstructDense(windows, validLines) == validLines

\* the number of set bits before bit i
ValidIndex(bits, i) == Cardinality({m \in 0..(i - 1) : BitsetGet(bits, m)})

\* a decoder that puts a space where the bitmap has a 0
PlacedLinesPadded(bits, validLines) ==
    [i \in 1..bits.length |->
        IF BitsetGet(bits, i - 1) /\ ValidIndex(bits, i - 1) < Len(validLines)
        THEN validLines[ValidIndex(bits, i - 1) + 1]
        ELSE <<32>>]

PlacedLines(bits, validLines) ==
    [i \in 1..bits.length |->
        IF BitsetGet(bits, i - 1) /\ ValidIndex(bits, i - 1) < Len(validLines)
        THEN validLines[ValidIndex(bits, i - 1) + 1]
        ELSE <<>>]

Reconstruct(windows, validLines) ==
    IF windows # <<>> /\ windows[1].linePresence.defined
    THEN PlacedLines(windows[1].linePresence, validLines)
    ELSE validLines

\* header.keyDictInline || header.keyDict
HeaderHasDict(header) ==
    \/ HasKey(header, K_keyDictInline) /\ Get(header, K_keyDictInline) = JBool(TRUE)
    \/ HasKey(header, K_keyDict) /\ Get(header, K_keyDict).t = "obj"

\* the row-wise branch: [ok, line] for each line of the payload
RowLines(bytes, header) ==
    With(SplitOn(utf8Decode(bytes), 10), LAMBDA lines :
        [i \in DOMAIN lines |->
            IF Len(Trim(lines[i])) = 0 \/ ~HeaderHasDict(header)
            THEN [ok |-> TRUE, text |-> lines[i]]
            ELSE runDecodeTransforms(utf8Encode(lines[i]), HeaderDict(header))])

\* the error of the first row that threw
FirstRowError(rows) ==
    rows[CHOOSE i \in DOMAIN rows : ~rows[i].ok /\ \A m \in 1..(i - 1) : rows[m].ok].err

\* the columnar branch of decompressNDJSON
ColumnarText(h, want) ==
    IF ~h.ok THEN NoText("RangeError")
    ELSE With(DecodedRows(h.windows, want), LAMBDA rows :
             IF \E i \in DOMAIN rows : ~rows[i].ok THEN NoText(FirstRowError(rows))
             ELSE [ok |-> TRUE, err |-> "",
                   text |-> Join(Reconstruct(h.windows,
                                     [i \in DOMAIN rows |-> Stringify(rows[i].obj)]),
                                 <<10>>)])

\* the row-wise branch of decompressNDJSON
RowText(out) ==
    IF \E i \in DOMAIN out : ~out[i].ok THEN NoText("SyntaxError")
    ELSE [ok |-> TRUE, err |-> "", text |-> Join([i \in DOMAIN out |-> out[i].text], <<10>>)]

\* [ok, err, text]
decompressNDJSON(containerBytes, opts, trailing) ==
    With(decodeContainer(containerBytes), LAMBDA c :
        IF ~c.ok THEN NoText(c.err)
        ELSE With(codecDecode(HeaderCodec(c.header), c.body, trailing), LAMBDA decoded :
                 IF ~decoded.ok THEN NoText("codec")
                 ELSE IF isColumnarPayload(decoded.data)
                 THEN ColumnarText(openColumnar(decoded.data), Want(opts))
                 ELSE RowText(RowLines(decoded.data, c.header))))

\* the chunks compressNDJSON compresses: the frames, or one chunk per line
\* where the columnar encoder is not asked for or returns nothing; [ok, chunks]
NDJSONChunks(inputNdjson, opts) ==
    With(IF opts.columnar
         THEN encodeNDJSONColumnar(inputNdjson, opts.keyDict, BatchSize)
         ELSE <<>>, LAMBDA frames :
        IF Len(frames) = 0 THEN encodeNDJSON(inputNdjson, opts.keyDict)
        ELSE [ok |-> TRUE, chunks |-> frames])

\* the batch of compressWithWorkers, scaled down from 16
WorkerBatch == 2

LargeInput == 32 * 1024 * 1024
ManyWindows == 64

getOptimalPoolSize(cpuCount) ==
    With(IF cpuCount - 1 > 1 THEN cpuCount - 1 ELSE 1, LAMBDA n : IF n < 4 THEN n ELSE 4)

\* workersOption: 0 for false, Undef for 'auto', else the number given
shouldUseWorkers(inputSize, windowCount, workersOption, cpuCount) ==
    IF workersOption = 0 THEN 0
    ELSE IF workersOption # Undef THEN workersOption
    ELSE IF inputSize >= LargeInput \/ windowCount >= ManyWindows
    THEN getOptimalPoolSize(cpuCount) ELSE 0

\* the worker count compressNDJSON arrives at; where the pool module does not
\* load, shouldUseWorkers is undefined and the count is 0
WorkerCount(inputBytes, chunks, opts) ==
    IF opts.runtime = "unavailable" THEN 0
    ELSE shouldUseWorkers(Len(inputBytes), Len(chunks), opts.workers, opts.cpus)

\* compressNDJSON from its chunks on, where no worker is used
PackChunks(enc, inputBytes, chosen, opts) ==
    Packed(enc.ok, inputBytes, enc.chunks, chosen, opts, TRUE,
           codecEncode(chosen, inputBytes))

\* compressNDJSON where no worker is used
compressNDJSON(inputNdjson, opts) ==
    With(NDJSONChunks(inputNdjson, opts), LAMBDA enc :
    With(Join(enc.chunks, <<10>>), LAMBDA inputBytes :
        PackChunks(enc, inputBytes, ChosenCodec(opts, inputBytes), opts)))

\* the tasks of the batch from base on
BatchTasks(p, base) ==
    [i \in 1..((IF base + WorkerBatch < Len(p.chunks) THEN base + WorkerBatch
                ELSE Len(p.chunks)) - base) |-> base + i]

\* the tasks handed to idle workers at once, and the tasks left in the queue
Handed(p, base, tasks, n) ==
    [p EXCEPT !.base = base,
              !.busy = {tasks[i] : i \in 1..n},
              !.queue = SubSeq(tasks, n + 1, Len(tasks))]

\* compressWithWorkers up to its first await: the tasks of the batch from
\* base on are run, as many as there are idle workers at once
Dispatch(p, base, workerCount) ==
    With(BatchTasks(p, base), LAMBDA tasks :
        Handed(p, base, tasks, IF workerCount < Len(tasks) THEN workerCount ELSE Len(tasks)))

\* the pool's state as compressWithWorkers starts
PoolStart(enc, inputBytes, chosen, workerCount) ==
    Dispatch([NothingPacked EXCEPT
                 !.payload = inputBytes, !.chunks = enc.chunks, !.codec = chosen,
                 !.results = [i \in DOMAIN enc.chunks |-> [done |-> FALSE, result |-> <<>>]]],
             0, workerCount)

StartChunks(enc, inputBytes, opts, workerCount) ==
    IF ~enc.ok THEN [pc |-> "packed", packed |-> NothingPacked]
    ELSE IF workerCount > 0 /\ Len(enc.chunks) > 1
    THEN IF opts.runtime = "throws" THEN [pc |-> "packed", packed |-> NothingPacked]
         ELSE [pc |-> "pool",
               packed |-> PoolStart(enc, inputBytes, ChosenCodec(opts, inputBytes),
                                    workerCount)]
    ELSE [pc |-> "packed",
          packed |-> PackChunks(enc, inputBytes, ChosenCodec(opts, inputBytes), opts)]

\* compressNDJSON up to its first await on the pool, or to its end where no
\* worker is used: [pc, packed]
StartNDJSON(inputNdjson, opts) ==
    With(NDJSONChunks(inputNdjson, opts), LAMBDA enc :
    With(Join(enc.chunks, <<10>>), LAMBDA inputBytes :
        StartChunks(enc, inputBytes, opts, WorkerCount(inputBytes, enc.chunks, opts))))

\* the first window that has no result yet
FirstOpen(p) ==
    CHOOSE i \in DOMAIN p.results :
        ~p.results[i].done /\ \A m \in 1..(i - 1) : p.results[m].done

\* a pool that keeps the results in the order in which the answers arrive
SettleOnArrival(p, j, result) ==
    [p EXCEPT !.results[FirstOpen(p)] = [done |-> TRUE, result |-> result],
              !.busy = (@ \ {j}) \cup (IF p.queue = <<>> THEN {} ELSE {Head(p.queue)}),
              !.queue = IF p.queue = <<>> THEN <<>> ELSE Tail(p.queue)]

\* a worker's answer to task j reaches the pool: the task is settled, the
\* worker takes the next task of the queue
Settle(p, j, result) ==
    [p EXCEPT !.results[j] = [done |-> TRUE, result |-> result],
              !.busy = (@ \ {j}) \cup (IF p.queue = <<>> THEN {} ELSE {Head(p.queue)}),
              !.queue = IF p.queue = <<>> THEN <<>> ELSE Tail(p.queue)]

\* compressWithWorkers after its last batch: the results joined by newlines
\* go into the container
Collect(p, opts) ==
    [p EXCEPT !.ok = TRUE,
              !.bytes = encodeContainer(
                  Header(p.codec, opts.createdAt, TRUE, opts.keyDict),
                  Join([i \in DOMAIN p.results |-> p.results[i].result], <<10>>))]

\* ------------------------------------------------------------------------
\* The state machine
\*
\* given is the caller's input, config the options of the call and what the
\* process runs in, packed what the compress call has reached, output what
\* the decode call returned.
\* ------------------------------------------------------------------------

NoOutput ==
    [passed |-> FALSE, fields |-> <<>>, ok |-> FALSE, err |-> "", text |-> <<>>,
     values |-> <<>>]

\* the state juc-cat keeps of the file it follows; defined is FALSE for null
NoState == [defined |-> FALSE, inode |-> 0, size |-> 0, processedHashes |-> {}]

\* no juc-cat runs
NoFollower ==
    /\ file = [inode |-> 0, lines |-> <<>>]
    /\ saved = NoState
    /\ cat = [phase |-> "off", state |-> NoState, info |-> [inode |-> 0, size |-> 0]]
    /\ written = {}

\* no WorkerPool has been constructed
NoPool ==
    [size |-> 0, spawned |-> 0, idle |-> <<>>, busy |-> {}, all |-> <<>>,
     queue |-> <<>>, pendingTasks |-> <<>>, alive |-> {}, holds |-> <<>>,
     settled |-> <<>>, windows |-> 0, base |-> 0, call |-> "none"]

\* new Date().toISOString()
CreatedAt ==
    <<50, 48, 50, 54, 45, 48, 49, 45, 48, 49, 84, 48, 48, 58, 48, 48, 58, 48, 48, 46,
      48, 48, 48, 90>>

\* a call with no option set, in a process without the variable and the pool
BaseConfig ==
    [api |-> "json", codec |-> "", env |-> "", keyDict |-> JNull, createdAt |-> CreatedAt,
     columnar |-> FALSE, workers |-> 0, runtime |-> "unavailable", cpus |-> 2,
     trailing |-> "error", key |-> <<107>>, fieldChoices |-> {<<>>}, absent |-> FALSE]

\* the options of the decode calls of a run: fields passed as each of
\* fieldChoices and, where absent is set, a call without fields
DecodeOptions(c) ==
    {[passed |-> TRUE, fields |-> f] : f \in c.fieldChoices}
    \cup (IF c.absent THEN {[passed |-> FALSE, fields |-> <<>>]} ELSE {})

\* compress(given, config)
Compress ==
    /\ pc = "ready"
    /\ config.api = "json"
    /\ packed' = compress(given, config)
    /\ pc' = "packed"
    /\ UNCHANGED <<given, config, output>>
    /\ UNCHANGED followVars
    /\ UNCHANGED pool

\* decompress(packed.bytes)
Decompress ==
    /\ pc \in {"packed", "tampered"}
    /\ config.api = "json"
    /\ packed.ok
    /\ output' = With(decompress(packed.bytes, config.trailing), LAMBDA r :
                      [NoOutput EXCEPT !.ok = r.ok, !.err = r.err, !.text = r.text])
    /\ pc' = "done"
    /\ UNCHANGED <<given, config, packed>>
    /\ UNCHANGED followVars
    /\ UNCHANGED pool

\* compressNDJSON(given, config), to its end or to its first await on the pool
CompressNDJSON ==
    /\ pc = "ready"
    /\ config.api = "ndjson"
    /\ \E r \in {StartNDJSON(given, config)} : pc' = r.pc /\ packed' = r.packed
    /\ UNCHANGED <<given, config, output>>
    /\ UNCHANGED followVars
    /\ UNCHANGED pool

\* the message handler of a worker and of the pool for one task in flight; an
\* error answer rejects the batch and with it the call
WorkerReply ==
    /\ pc = "pool"
    /\ \E j \in packed.busy :
         \E r \in {codecEncode(packed.codec, packed.chunks[j])} :
             IF r.ok THEN pc' = "pool" /\ packed' = Settle(packed, j, r.data)
             ELSE pc' = "packed" /\ packed' = NothingPacked
    /\ UNCHANGED <<given, config, output>>
    /\ UNCHANGED followVars
    /\ UNCHANGED pool

\* compressWithWorkers resumes after a batch: the next batch, or the container
BatchDone ==
    /\ pc = "pool"
    /\ packed.busy = {}
    /\ packed.queue = <<>>
    /\ IF packed.base + WorkerBatch < Len(packed.chunks)
       THEN pc' = "pool"
            /\ packed' = Dispatch(packed, packed.base + WorkerBatch,
                                  WorkerCount(packed.payload, packed.chunks, config))
       ELSE pc' = "packed" /\ packed' = Collect(packed, config)
    /\ UNCHANGED <<given, config, output>>
    /\ UNCHANGED followVars
    /\ UNCHANGED pool

\* decompressNDJSON(packed.bytes, opts)
DecompressNDJSON ==
    /\ pc \in {"packed", "tampered"}
    /\ config.api = "ndjson"
    /\ packed.ok
    /\ \E opts \in DecodeOptions(config) :
         \E r \in {decompressNDJSON(packed.bytes, opts, config.trailing)} :
             output' = [NoOutput EXCEPT !.passed = opts.passed, !.fields = opts.fields,
                                        !.ok = r.ok, !.err = r.err, !.text = r.text]
    /\ pc' = "done"
    /\ UNCHANGED <<given, config, packed>>
    /\ UNCHANGED followVars
    /\ UNCHANGED pool

\* the offset of the body in a container: magic, header length, header, CRC
BodyStart(bytes) == 8 + readU32LE(bytes, 4) + 4

\* one bit of the body of the container is flipped on its way to the reader:
\* bit k of the byte at offset i
Tamper ==
    /\ pc = "packed"
    /\ packed.ok
    /\ \E i \in BodyStart(packed.bytes)..(Len(packed.bytes) - 1), k \in 0..7 :
         packed' = [packed EXCEPT !.bytes[i + 1] = Xor8(@, 2^k), !.flipped = 8 * i + k + 1]
    /\ pc' = "tampered"
    /\ UNCHANGED <<given, config, output>>
    /\ UNCHANGED followVars
    /\ UNCHANGED pool

\* encodeColumn(given, config.key)
EncodeColumn ==
    /\ pc = "ready"
    /\ config.api = "column"
    /\ packed' = [NothingPacked EXCEPT !.ok = TRUE, !.bytes = encodeColumn(given, config.key)]
    /\ pc' = "encoded"
    /\ UNCHANGED <<given, config, output>>
    /\ UNCHANGED followVars
    /\ UNCHANGED pool

\* decodeColumn(packed.bytes, given.length)
DecodeColumn ==
    /\ pc = "encoded"
    /\ \E values \in {decodeColumn(packed.bytes, Len(given))} :
         output' = [NoOutput EXCEPT !.ok = ~Threw(values), !.values = values]
    /\ pc' = "decoded"
    /\ UNCHANGED <<given, config, packed>>
    /\ UNCHANGED followVars
    /\ UNCHANGED pool

\* ---------------------------------------------------------------------------
\* juc-cat in follow mode with a state file (src/unnamed/part_017)
\* ---------------------------------------------------------------------------

\* hash = ((hash << 5) - hash + line.charCodeAt(i)) & 0xffffffff, the 32 bits
\* held as <<high, low>> halves of 16 bits
HashStep(h, c) ==
    With(31 * h[2] + c, LAMBDA low :
        <<(31 * h[1] + (low \div 65536)) % 65536, low % 65536>>)

RECURSIVE HashFrom(_, _)
HashFrom(line, h) ==
    IF line = <<>> \/ ~Known(h) THEN h
    ELSE HashFrom(Tail(line), HashStep(h, Head(line)))

hashLine(line) == HashFrom(line, <<0, 0>>)

\* the options the followed file was written with
FileOptions == [BaseConfig EXCEPT !.api = "ndjson"]

\* readFile(input): the container of the file's lines
FileBytes(f) == compressNDJSON(Join(f.lines, <<10>>), FileOptions).bytes

NoInfo == [inode |-> 0, size |-> 0]

\* stat(filePath): [inode, size]
getFileInfo(f) == [inode |-> f.inode, size |-> Len(FileBytes(f))]

\* formatLogEntry(obj, 'ndjson')
formatLogEntry(obj) == Stringify(obj)

\* the loop of processFile over the lines, [hashes, out]: a line that does
\* not parse is skipped, a line whose hash is in the state is skipped, any
\* other line is written and its hash added (the set stays far below the
\* 10000 hashes at which it is cut)
RECURSIVE ProcessLines(_, _, _)
ProcessLines(lines, hashes, out) ==
    IF lines = <<>> \/ ~Known(hashes) THEN [hashes |-> hashes, out |-> out]
    ELSE With(JSONParse(Head(lines)), LAMBDA obj :
             IF ~obj.ok \/ hashLine(Head(lines)) \in hashes
             THEN ProcessLines(Tail(lines), hashes, out)
             ELSE ProcessLines(Tail(lines), hashes \cup {hashLine(Head(lines))},
                               out \cup {formatLogEntry(obj.v)}))

\* processFile(state) on the bytes read: [hashes, out]
processFile(bytes, hashes) ==
    With(decompressNDJSON(bytes, [passed |-> FALSE, fields |-> <<>>], "error"),
         LAMBDA ndjson :
        IF ~ndjson.ok THEN [hashes |-> hashes, out |-> {}]
        ELSE ProcessLines(SelectSeq(SplitOn(ndjson.text, 10),
                                    LAMBDA line : Trim(line) # <<>>),
                          hashes, {}))

\* checkAndProcess up to the call of processFile: the follower after the stat
Polled(state, fileInfo) ==
    With(state.defined /\ (state.inode # fileInfo.inode \/ fileInfo.size < state.size),
         LAMBDA isRotated :
    With(IF isRotated THEN NoState ELSE state, LAMBDA kept :
        IF ~kept.defined \/ fileInfo.size > kept.size \/ isRotated
        THEN [phase |-> "reading",
              state |-> IF kept.defined THEN kept
                        ELSE [defined |-> TRUE, inode |-> fileInfo.inode,
                              size |-> fileInfo.size, processedHashes |-> {}],
              info |-> fileInfo]
        ELSE [phase |-> "idle", state |-> kept, info |-> NoInfo]))

MaxFileLines == 2
MaxInode == 2

\* {"m":"Aa"}, {"m":"BB"}, {"m":"cc"}
FollowRecords ==
    {<<123,34,109,34,58,34,65,97,34,125>>, <<123,34,109,34,58,34,66,66,34,125>>,
     <<123,34,109,34,58,34,99,99,34,125>>}

\* checkAndProcess: the stat and the test for rotation and growth
Poll ==
    /\ cat.phase = "idle"
    /\ cat' = Polled(cat.state, getFileInfo(file))
    /\ UNCHANGED <<file, saved, written>>
    /\ UNCHANGED <<pc, given, config, packed, output, pool>>

\* processFile(state), the update of the state and the checkpoint, which is
\* written where more than checkpointInterval has gone by
ProcessFile ==
    /\ cat.phase = "reading"
    /\ \E r \in {processFile(FileBytes(file), cat.state.processedHashes)},
          due \in BOOLEAN :
         /\ written' = written \cup r.out
         /\ \E state \in {[defined |-> TRUE, inode |-> cat.info.inode,
                           size |-> cat.info.size, processedHashes |-> r.hashes]} :
              /\ cat' = [phase |-> "idle", state |-> state, info |-> NoInfo]
              /\ saved' = IF due THEN state ELSE saved
    /\ UNCHANGED file
    /\ UNCHANGED <<pc, given, config, packed, output, pool>>

\* the process is killed and started again: state = await loadState(stateFile)
Restart ==
    /\ cat.phase \in {"idle", "reading"}
    /\ cat' = [phase |-> "idle", state |-> saved, info |-> NoInfo]
    /\ UNCHANGED <<file, saved, written>>
    /\ UNCHANGED <<pc, given, config, packed, output, pool>>

\* the writer adds a record to the followed file
AppendRecord ==
    /\ cat.phase # "off"
    /\ Len(file.lines) < MaxFileLines
    /\ \E record \in FollowRecords :
         file' = [file EXCEPT !.lines = Append(file.lines, record)]
    /\ UNCHANGED <<saved, cat, written>>
    /\ UNCHANGED <<pc, given, config, packed, output, pool>>

\* logrotate: a new file under the name, or the file emptied in place and
\* written again
Rotate ==
    /\ cat.phase # "off"
    /\ file.inode < MaxInode
    /\ \E record \in FollowRecords, inode \in {file.inode, file.inode + 1} :
         file' = [inode |-> inode, lines |-> <<record>>]
    /\ UNCHANGED <<saved, cat, written>>
    /\ UNCHANGED <<pc, given, config, packed, output, pool>>

\* the dictionary {"forward":{"msg":"m"},"inverse":{"m":"msg"}}
MsgDict ==
    JObj(<<[k |-> <<102, 111, 114, 119, 97, 114, 100>>,
            v |-> JObj(<<[k |-> <<109, 115, 103>>, v |-> JStr(<<109>>)]>>)],
           [k |-> <<105, 110, 118, 101, 114, 115, 101>>,
            v |-> JObj(<<[k |-> <<109>>, v |-> JStr(<<109, 115, 103>>)]>>)]>>)

\* {"b":1,"a":[1.5]}
DocFlat ==
    <<123, 34, 98, 34, 58, 49, 44, 34, 97, 34, 58, 91, 49, 46, 53, 93, 125>>

\*  {"a" : "x"} 
DocSpaced ==
    <<32, 123, 34, 97, 34, 32, 58, 32, 34, 120, 34, 125, 32>>

\* []
DocEmptyArray ==
    <<91, 93>>

\* "s"
DocString ==
    <<34, 115, 34>>

\* -12
DocNumber ==
    <<45, 49, 50>>

\* null
DocNull ==
    <<110, 117, 108, 108>>

\* {"ts":1700000000000,"n":{"k":[true,false,null]}}
DocNested ==
    <<123, 34, 116, 115, 34, 58, 49, 55, 48, 48, 48, 48, 48, 48, 48, 48, 48, 48, 48, 44, 34,
      110, 34, 58, 123, 34, 107, 34, 58, 91, 116, 114, 117, 101, 44, 102, 97, 108, 115, 101,
      44, 110, 117, 108, 108, 93, 125, 125>>

\* {"msg":"aaaaaaaaaaaaaaaaaaaaaaaaaaaaaaaaaaaaaaaa","id":[1,2,3]}
DocLong ==
    <<123, 34, 109, 115, 103, 34, 58, 34, 97, 97, 97, 97, 97, 97, 97, 97, 97, 97, 97, 97,
      97, 97, 97, 97, 97, 97, 97, 97, 97, 97, 97, 97, 97, 97, 97, 97, 97, 97, 97, 97, 97,
      97, 97, 97, 97, 97, 97, 97, 34, 44, 34, 105, 100, 34, 58, 91, 49, 44, 50, 44, 51, 93,
      125>>

\* {oops
DocBroken ==
    <<123, 111, 111, 112, 115>>

\* {"__proto__":1,"a":2}
DocProto ==
    <<123, 34, 95, 95, 112, 114, 111, 116, 111, 95, 95, 34, 58, 49, 44, 34, 97, 34, 58, 50,
      125>>

Docs ==
    {DocFlat, DocSpaced, DocEmptyArray, DocString, DocNumber, DocNull, DocNested, DocLong,
     DocProto, DocBroken, <<>>}

\* opts.codec and JSON_OPT_CODEC: "" where not set, "lz4" no name of the registry
DocConfigs ==
    {[BaseConfig EXCEPT !.codec = c, !.env = e, !.keyDict = d, !.trailing = t] :
        c \in {"", "gzip", "brotli", "hybrid", "auto", "identity", "zstd"},
        e \in {"", "gzip", "lz4"}, d \in {JNull, MsgDict}, t \in {"ignore", "error"}}

\* a JSON text and the options of compress
Init ==
    /\ pc = "ready"
    /\ given \in Docs
    /\ config \in {c \in DocConfigs : c.keyDict = JNull \/ c.codec = "gzip"}
    /\ packed = NothingPacked
    /\ output = NoOutput
    /\ NoFollower
    /\ pool = NoPool

Next == Compress \/ Decompress

Spec == Init /\ [][Next]_vars

\* parse(a) = parse(b) for two texts that both parse
ParseEqual(a, b) ==
    JSONParse(a).ok /\ JSONParse(b).ok /\ ValEq(JSONParse(a).v, JSONParse(b).v)

\* C1 (as stated): for every well-formed JSON text x and every codec of gzip,
\* brotli and hybrid, decompress(compress(x, {codec})) returns a text whose
\* parsed value equals parse(x)
C1_RoundTrip ==
    (pc = "done" /\ JSONParse(given).ok /\ config.codec \in {"gzip", "brotli", "hybrid"}
     /\ config.keyDict = JNull)
    => output.ok /\ ParseEqual(output.text, given)

\* ------------------------------------------------------------------------
\* Row-wise NDJSON: a text through compressNDJSON and decompressNDJSON with
\* columnar: false
\* ------------------------------------------------------------------------

MaxLines == 3

\* {"a":1}
LineRecord == <<123, 34, 97, 34, 58, 49, 125>>

\*  {"b" : [2]}  with a space before and after
LinePadded == <<32, 123, 34, 98, 34, 32, 58, 32, 91, 50, 93, 125, 32>>

\* a blank line, two spaces, a lone U+FEFF, two records and a line that is
\* no JSON
RowLineChoices == {<<>>, <<32, 32>>, <<65279>>, LineRecord, LinePadded, DocBroken}

\* the texts of up to MaxLines lines, with and without a byte order mark
RowTexts ==
    {bom \o Join(ls, <<10>>) :
        bom \in {<<>>, <<65279>>},
        ls \in UNION {[1..n -> RowLineChoices] : n \in 1..MaxLines}}

RowConfigs ==
    {[BaseConfig EXCEPT !.api = "ndjson", !.codec = c] : c \in {"", "gzip"}}

InitRows ==
    /\ pc = "ready"
    /\ given \in RowTexts
    /\ config \in RowConfigs
    /\ packed = NothingPacked
    /\ output = NoOutput
    /\ NoFollower
    /\ pool = NoPool

NextRows == CompressNDJSON \/ DecompressNDJSON

SpecRows == InitRows /\ [][NextRows]_vars

\* the lines of an NDJSON text as the encoders see them: after the byte order
\* mark of the text, split at line ends
InputLines(text) == SplitLines(StripBOM(text))

IsBlank(line) == Trim(line) = <<>>

\* every line is blank or a JSON object
IsNDJSON(text) ==
    \A i \in DOMAIN InputLines(text) :
        \/ IsBlank(InputLines(text)[i])
        \/ /\ JSONParse(Trim(InputLines(text)[i])).ok
           /\ JSONParse(Trim(InputLines(text)[i])).v.t = "obj"

\* the two sequences of lines agree as the row-wise round trip promises
SameRows(in, out) ==
    /\ Len(out) = Len(in)
    /\ \A i \in DOMAIN in :
          IF IsBlank(in[i]) THEN i \in DOMAIN out /\ out[i] = in[i]
          ELSE i \in DOMAIN out /\ ParseEqual(Trim(out[i]), Trim(in[i]))

\* C2 (as stated): with columnar: false the decoded text has as many lines
\* as the input, every blank or whitespace-only line has the same content at
\* the same index, and every other line parses to the value of the input
\* line at that index
C2_RowRoundTrip ==
    (pc = "done" /\ config.api = "ndjson" /\ ~config.columnar /\ IsNDJSON(given))
    => output.ok /\ SameRows(InputLines(given), SplitOn(output.text, 10))

\* ------------------------------------------------------------------------
\* Columnar NDJSON: a text through compressNDJSON with columnar: true and
\* decompressNDJSON, with and without fields
\* ------------------------------------------------------------------------

MaxColumnarLines == 4

\* {"ts":5,"level":"info"}
LineSmall ==
    <<123, 34, 116, 115, 34, 58, 53, 44, 34, 108, 101, 118, 101, 108, 34, 58, 34, 105, 110,
      102, 111, 34, 125>>

\* {"level":"warn","ts":1700000000001}
LineEpoch ==
    <<123, 34, 108, 101, 118, 101, 108, 34, 58, 34, 119, 97, 114, 110, 34, 44, 34, 116, 115,
      34, 58, 49, 55, 48, 48, 48, 48, 48, 48, 48, 48, 48, 48, 49, 125>>

\* {"a":[1.5],"b":true,"c":null}
LineOther ==
    <<123, 34, 97, 34, 58, 91, 49, 46, 53, 93, 44, 34, 98, 34, 58, 116, 114, 117, 101, 44,
      34, 99, 34, 58, 110, 117, 108, 108, 125>>

\* a blank line, two spaces, and records of two shapes, one of them with a
\* timestamp in milliseconds
ColumnarLineChoices == {<<>>, <<32, 32>>, LineSmall, LineEpoch, LineOther}

ColumnarTexts ==
    {Join(ls, <<10>>) :
        ls \in UNION {[1..n -> ColumnarLineChoices] : n \in 1..MaxColumnarLines}}

K_ts == <<116, 115>>
K_zz == <<122, 122>>
K_constructor == <<99, 111, 110, 115, 116, 114, 117, 99, 116, 111, 114>>

\* opts.fields of the decode call: none, a key of one shape with a key of no
\* record, and a key of no record that Object.prototype knows
FieldChoices == {<<>>, <<K_ts, K_zz>>, <<K_constructor>>}

InitColumnar ==
    /\ pc = "ready"
    /\ given \in ColumnarTexts
    /\ config = [BaseConfig EXCEPT !.api = "ndjson", !.columnar = TRUE,
                                   !.fieldChoices = FieldChoices]
    /\ packed = NothingPacked
    /\ output = NoOutput
    /\ NoFollower
    /\ pool = NoPool

NextColumnar == CompressNDJSON \/ DecompressNDJSON

SpecColumnar == InitColumnar /\ [][NextColumnar]_vars

\* the container holds columnar frames: the encoder did not fall back
IsColumnar == packed.ok /\ isColumnarPayload(packed.payload)

OutputLines == SplitOn(output.text, 10)

\* C3: with columnar: true, full decode emits as many lines as the input
\* had, and every index of a blank or whitespace-only input line holds a blank
\* line
C3_LineCount ==
    (pc = "done" /\ config.api = "ndjson" /\ config.columnar /\ output.fields = <<>>
     /\ IsNDJSON(given))
    => /\ output.ok
       /\ Len(OutputLines) = Len(InputLines(given))
       /\ \A i \in DOMAIN InputLines(given) :
             IsBlank(InputLines(given)[i]) => i \in DOMAIN OutputLines /\ IsBlank(OutputLines[i])

\* a columnar container of a text with blank lines has been decoded in full
C3_Witness ==
    /\ pc = "done" /\ config.columnar /\ output.fields = <<>> /\ IsNDJSON(given)
    /\ IsColumnar /\ output.ok
    /\ Len(OutputLines) = 4
    /\ \E i, j \in DOMAIN InputLines(given) :
          InputLines(given)[i] = <<32, 32>> /\ ~IsBlank(InputLines(given)[j])

\* the parsed values of the lines that are not blank, in order
Records(lines) ==
    With(SelectSeq(lines, LAMBDA l : ~IsBlank(l)), LAMBDA kept :
        [i \in DOMAIN kept |-> JSONParse(Trim(kept[i])).v])

Fingerprints(records) == {computeShapeFingerprint(records[i]) : i \in DOMAIN records}

\* the k-th record of every shape group of a is the k-th of that group of b
SameGroups(a, b) ==
    \A f \in Fingerprints(a) \cup Fingerprints(b) :
        /\ Len(ShapeGroup(a, f)) = Len(ShapeGroup(b, f))
        /\ \A k \in DOMAIN ShapeGroup(a, f) :
              k \in DOMAIN ShapeGroup(b, f) /\ ValEq(ShapeGroup(a, f)[k], ShapeGroup(b, f)[k])

\* C4 (as stated): with columnar: true, the k-th decoded line of every shape
\* group parses to the value of the k-th input record of that shape group
C4_GroupOrder ==
    (pc = "done" /\ config.api = "ndjson" /\ config.columnar /\ output.fields = <<>>
     /\ IsNDJSON(given))
    => output.ok /\ SameGroups(Records(InputLines(given)), Records(OutputLines))

\* the records in the order the decoder emits them: shape group after shape
\* group for columnar frames, input order for a row-wise payload
EmitOrder(records, columnar) ==
    IF columnar
    THEN With(ShapeOrder(records, <<>>), LAMBDA shapes :
             Flatten([g \in DOMAIN shapes |-> ShapeGroup(records, shapes[g])]))
    ELSE records

\* the emitted object has no key outside F and every key of F the original has,
\* with the original's value
Projects(emitted, original, F) ==
    /\ emitted.t = "obj"
    /\ Range(ObjectKeys(emitted)) \subseteq Range(F)
    /\ \A i \in DOMAIN F :
          HasKey(original, F[i])
          => HasKey(emitted, F[i]) /\ ValEq(Get(emitted, F[i]), Get(original, F[i]))

\* the emitted records project the original records, one for one
ProjectsAll(emitted, originals, F) ==
    /\ Len(emitted) = Len(originals)
    /\ \A k \in DOMAIN originals :
          k \in DOMAIN emitted /\ Projects(emitted[k], originals[k], F)

\* C5 (as stated): for any container of compressNDJSON and any fields F,
\* every line emitted for a record is a JSON object whose keys are in F and
\* that carries every key of F the original record has, with its value
C5_SelectiveSound ==
    (pc = "done" /\ config.api = "ndjson" /\ output.fields # <<>> /\ IsNDJSON(given)
     /\ output.ok)
    => ProjectsAll(Records(OutputLines),
                   EmitOrder(Records(InputLines(given)), IsColumnar), output.fields)

\* the original records that have no key of F come out as {}
EmptyRows(emitted, originals, F) ==
    \A k \in DOMAIN originals :
        (\A i \in DOMAIN F : ~HasKey(originals[k], F[i]))
        => k \in DOMAIN emitted /\ emitted[k] = JObj(<<>>)

\* C6 (as stated): for any fields F, selective decode does not fail, emits
\* as many lines as the input had, keeps blank lines blank at their indices
\* and emits {} for a row that has none of the keys of F
C6_SelectiveStructure ==
    (pc = "done" /\ config.api = "ndjson" /\ output.fields # <<>> /\ IsNDJSON(given))
    => /\ output.ok
       /\ Len(OutputLines) = Len(InputLines(given))
       /\ \A i \in DOMAIN InputLines(given) :
             IsBlank(InputLines(given)[i]) => i \in DOMAIN OutputLines /\ IsBlank(OutputLines[i])
       /\ EmptyRows(Records(OutputLines),
                    EmitOrder(Records(InputLines(given)), IsColumnar), output.fields)

\* C9: the frames of a columnar body, joined by one newline byte each, are
\* what a reader gets that walks the body by the lengths the frames declare,
\* in order and up to the end of the body
C9_FramesDelimited ==
    (pc \in {"packed", "done"} /\ config.api = "ndjson" /\ IsColumnar)
    => /\ packed.payload = Join(packed.chunks, <<10>>)
       /\ parseColumnarFrames(packed.payload) = [ok |-> TRUE, frames |-> packed.chunks]

\* a body of a line-presence frame, two frames of one shape and a frame of
\* another shape has been written
C9_Witness ==
    /\ pc = "packed" /\ IsColumnar
    /\ Len(packed.chunks) = 4
    /\ parseColumnarFrames(packed.payload).frames = packed.chunks

\* ------------------------------------------------------------------------
\* Corruption: one bit of the body of a container is flipped before it is
\* decoded
\* ------------------------------------------------------------------------

\* three records of one shape: the encoder writes columnar frames
TextColumnar == Join(<<LineSmall, LineSmall, LineOther, LineSmall>>, <<10>>)

\* two lines: the payload is row-wise
TextRows == Join(<<LineRecord, LinePadded>>, <<10>>)

TamperConfigs ==
    {[BaseConfig EXCEPT !.codec = c] : c \in {"gzip", "brotli", "hybrid", "identity"}}
    \cup {[BaseConfig EXCEPT !.api = "ndjson", !.columnar = col, !.trailing = t] :
             col \in BOOLEAN, t \in {"ignore", "error"}}

InitTamper ==
    /\ pc = "ready"
    /\ config \in TamperConfigs
    /\ given \in IF config.api = "json" THEN {DocString, DocFlat}
                  ELSE {TextRows, TextColumnar}
    /\ packed = NothingPacked
    /\ output = NoOutput
    /\ NoFollower
    /\ pool = NoPool

NextTamper == Compress \/ CompressNDJSON \/ Tamper \/ Decompress \/ DecompressNDJSON

SpecTamper == InitTamper /\ [][NextTamper]_vars

\* C7: a container of compress or compressNDJSON with one bit flipped after
\* the CRC field is rejected with the CRC mismatch of decodeContainer, and no
\* decoded text is returned
C7_CrcRejects ==
    (pc = "done" /\ packed.flipped # 0)
    => ~output.ok /\ output.err = "CRC mismatch" /\ output.text = <<>>

\* the last bit of the body of an NDJSON container was flipped, and the decode
\* call has returned
C7_Witness ==
    /\ pc = "done" /\ config.api = "ndjson"
    /\ packed.flipped = 8 * (Len(packed.bytes) - 1) + 7 + 1
    /\ output.err = "CRC mismatch"

\* ------------------------------------------------------------------------
\* Codec selection: compress and compressNDJSON on every path to a back-end,
\* the worker pool included
\* ------------------------------------------------------------------------

\* three lines: three row-wise chunks, more than one batch of the pool
TextThreeRows == Join(<<LineRecord, <<>>, LinePadded>>, <<10>>)

\* opts.codec and JSON_OPT_CODEC on the single-record path
PathDocConfigs ==
    {[BaseConfig EXCEPT !.codec = c, !.env = e] :
        c \in {"", "hybrid", "auto", "zstd"}, e \in {"", "gzip", "lz4"}}

\* opts.codec, JSON_OPT_CODEC and opts.workers on the NDJSON path, in a
\* process where the pool module does not load, where the pool cannot start
\* its workers, and where it runs them
PathRowConfigs ==
    {[BaseConfig EXCEPT !.api = "ndjson", !.codec = c, !.env = e, !.workers = w,
                        !.runtime = r, !.trailing = t, !.columnar = col] :
        c \in {"", "gzip", "hybrid", "identity", "auto", "zstd"}, e \in {"", "gzip"},
        w \in {0, 2, Undef}, r \in {"unavailable", "throws", "runs"},
        t \in {"ignore", "error"}, col \in BOOLEAN}

InitPaths ==
    /\ pc = "ready"
    /\ config \in PathDocConfigs
                  \cup {c \in PathRowConfigs :
                           /\ c.codec = "" \/ c.env = ""
                           /\ c.workers = 2 \/ (c.runtime = "runs" /\ c.trailing = "error")}
    /\ given \in IF config.api = "json" THEN {DocFlat, DocLong}
                  ELSE {TextRows, TextThreeRows, TextColumnar}
    /\ packed = NothingPacked
    /\ output = NoOutput
    /\ NoFollower
    /\ pool = NoPool

NextPaths ==
    Compress \/ Decompress \/ CompressNDJSON \/ WorkerReply \/ BatchDone \/ DecompressNDJSON

SpecPaths == InitPaths /\ [][NextPaths]_vars

\* the body of a container, decoded by the back-end its header names
BodyDecoded(bytes, trailing) ==
    With(decodeContainer(bytes), LAMBDA c :
        codecDecode(HeaderCodec(c.header), c.body, trailing))

\* C10 (as stated): the codec field of every container of compress and
\* compressNDJSON names the back-end that wrote the body, and that back-end
\* decodes the body to the bytes that were compressed
C10_CodecTruth ==
    (pc \in {"packed", "done"} /\ packed.ok)
    => /\ HeaderCodec(decodeContainer(packed.bytes).header) = packed.codec
       /\ BodyDecoded(packed.bytes, config.trailing) = [ok |-> TRUE, data |-> packed.payload]

\* ------------------------------------------------------------------------
\* Codec option and JSON_OPT_CODEC
\* ------------------------------------------------------------------------

\* the values of opts.codec: not passed, the names of the registry, 'auto' and
\* a name the registry does not have
CodecOptions == {"", "gzip", "brotli", "identity", "hybrid", "zstd", "auto", "lz4"}

\* the values of JSON_OPT_CODEC: not set, names of the registry, and names it
\* does not have
EnvHints == {"", "gzip", "hybrid", "identity", "zstd", "auto", "lz4", "constructor"}

HintConfigs ==
    {[BaseConfig EXCEPT !.api = a, !.codec = c, !.env = e, !.columnar = col] :
        a \in {"json", "ndjson"}, c \in CodecOptions, e \in EnvHints, col \in BOOLEAN}

InitHints ==
    /\ pc = "ready"
    /\ config \in {c \in HintConfigs : c.api = "ndjson" \/ ~c.columnar}
    /\ given \in IF config.api = "json" THEN {DocFlat, DocLong}
                  ELSE {TextRows, TextColumnar}
    /\ packed = NothingPacked
    /\ output = NoOutput
    /\ NoFollower
    /\ pool = NoPool

NextHints == Compress \/ Decompress \/ CompressNDJSON \/ DecompressNDJSON

SpecHints == InitHints /\ [][NextHints]_vars

\* the codec field of the header of the container made
MadeCodec == HeaderCodec(decodeContainer(packed.bytes).header)

\* C11: where a codec of the registry is passed as opts.codec the header names
\* it, whatever JSON_OPT_CODEC says; where no codec is passed and
\* JSON_OPT_CODEC names a codec of the registry the header names that one
C11_OptionBeforeHint ==
    (pc \in {"packed", "done"} /\ packed.ok)
    => /\ config.codec \in CodecNames => MadeCodec = config.codec
       /\ (config.codec = "" /\ config.env \in CodecNames) => MadeCodec = config.env

\* a container made with an option and a hint that name different codecs
C11_Witness ==
    /\ pc = "packed" /\ packed.ok
    /\ config.codec = "brotli" /\ config.env = "hybrid"
    /\ MadeCodec = "brotli"

\* C12 (as stated): with no codec option and JSON_OPT_CODEC not set, compress
\* and compressNDJSON run the hybrid codec and the header says "hybrid"
C12_DefaultHybrid ==
    (pc \in {"packed", "done"} /\ packed.ok /\ config.codec = "" /\ config.env = "")
    => packed.codec = "hybrid" /\ MadeCodec = "hybrid"

\* ------------------------------------------------------------------------
\* Columnar texts with lines that are no records: compressNDJSON with
\* columnar: true, then the full decode, called without fields and with
\* fields: []
\* ------------------------------------------------------------------------

MaxMixedLines == 4

\* null
LineNull == <<110, 117, 108, 108>>

\* a blank line, records of two shapes, a line that parses to null and a line
\* that is no JSON
MixedLineChoices == {<<>>, LineSmall, LineOther, LineNull, DocBroken}

MixedTexts ==
    {Join(ls, <<10>>) :
        ls \in UNION {[1..n -> MixedLineChoices] : n \in 1..MaxMixedLines}}

InitMixed ==
    /\ pc = "ready"
    /\ given \in MixedTexts
    /\ config = [BaseConfig EXCEPT !.api = "ndjson", !.columnar = TRUE, !.absent = TRUE]
    /\ packed = NothingPacked
    /\ output = NoOutput
    /\ NoFollower
    /\ pool = NoPool

NextMixed == CompressNDJSON \/ DecompressNDJSON

SpecMixed == InitMixed /\ [][NextMixed]_vars

\* the full decode of the frames of the container made
FullDecode == ColumnarText(openColumnar(packed.payload), [defined |-> FALSE, fields |-> <<>>])

\* the records of the input in the order of the frames
FramedRecords == EmitOrder(ValidObjects(ParsedLines(given)), TRUE)

\* every emitted record has the keys of the record it was made from
UsesAllKeys ==
    /\ Len(Records(OutputLines)) = Len(FramedRecords)
    /\ \A k \in DOMAIN FramedRecords :
          /\ k \in DOMAIN Records(OutputLines)
          /\ Range(ObjectKeys(Records(OutputLines)[k])) = Range(ObjectKeys(FramedRecords[k]))

\* C13: on a columnar container, decompressNDJSON called without fields and
\* called with fields: [] both return the text of the full decode, in which
\* every record has all the keys of its frame
C13_EmptyFieldsFull ==
    (pc = "done" /\ config.api = "ndjson" /\ IsColumnar /\ output.fields = <<>>)
    => /\ [ok |-> output.ok, err |-> output.err, text |-> output.text] = FullDecode
       /\ output.ok
       /\ UsesAllKeys

\* a columnar container of records of two shapes has been decoded with
\* fields: []
C13_Witness ==
    /\ pc = "done" /\ IsColumnar
    /\ output.passed /\ output.fields = <<>> /\ output.ok
    /\ Cardinality(Fingerprints(Records(OutputLines))) = 2

\* the records of a are the records of b, one for one and in order
SameRecords(a, b) ==
    /\ Len(a) = Len(b)
    /\ \A i \in DOMAIN b : i \in DOMAIN a /\ ValEq(a[i], b[i])

\* C17 (as stated): with columnar: true, the i-th non-blank line of the full
\* decode parses to the value of the i-th non-blank input line, for records
\* of mixed shapes too
C17_DocumentOrder ==
    (pc = "done" /\ config.api = "ndjson" /\ config.columnar /\ output.fields = <<>>
     /\ IsNDJSON(given))
    => output.ok /\ SameRecords(Records(OutputLines), Records(InputLines(given)))

\* the windows of the body of the container made, and the bitmap they carry
BodyWindows == openColumnar(packed.payload).windows

BodyBitmap == BodyWindows[1].linePresence

OneBits(bits) == Cardinality({m \in 0..(bits.length - 1) : BitsetGet(bits, m)})

RECURSIVE TotalRows(_)
TotalRows(windows) ==
    IF windows = <<>> THEN 0 ELSE Head(windows).numRows + TotalRows(Tail(windows))

\* C19 (as stated): in every columnar body the line-presence bitmap has as
\* many 1-bits as the shape frames have rows, and the full decode puts one
\* record at every 1-bit
C19_BitsMatchRows ==
    /\ (pc \in {"packed", "done"} /\ config.api = "ndjson" /\ IsColumnar)
       => OneBits(BodyBitmap) = TotalRows(BodyWindows)
    /\ (pc = "done" /\ config.api = "ndjson" /\ IsColumnar /\ output.fields = <<>>)
       => /\ output.ok
          /\ \A i \in DOMAIN OutputLines :
                BitsetGet(BodyBitmap, i - 1) <=> ~IsBlank(OutputLines[i])

\* the line is not blank and is no JSON
IsMalformed(line) == ~IsBlank(line) /\ ~JSONParse(Trim(line)).ok

\* C20 (as stated): with columnar: true a line that is not blank and does
\* not parse does not make the call fail; it has a 0 bit in the line-presence
\* bitmap where the body is columnar, no row in a shape frame, and comes back as
\* an empty line at its index
C20_MalformedDropped ==
    (config.api = "ndjson" /\ config.columnar
     /\ \E i \in DOMAIN InputLines(given) : IsMalformed(InputLines(given)[i]))
    => /\ pc \in {"packed", "done"} => packed.ok
       /\ (pc \in {"packed", "done"} /\ IsColumnar)
          => /\ \A i \in DOMAIN InputLines(given) :
                   IsMalformed(InputLines(given)[i]) => ~BitsetGet(BodyBitmap, i - 1)
             /\ TotalRows(BodyWindows)
                  = Cardinality({i \in DOMAIN InputLines(given) :
                                    /\ ~IsBlank(InputLines(given)[i])
                                    /\ ~IsMalformed(InputLines(given)[i])
                                    /\ InputLines(given)[i] # LineNull})
       /\ (pc = "done" /\ output.fields = <<>>)
          => /\ output.ok
             /\ Len(OutputLines) = Len(InputLines(given))
             /\ \A i \in DOMAIN InputLines(given) :
                   IsMalformed(InputLines(given)[i]) => OutputLines[i] = <<>>

\* ------------------------------------------------------------------------
\* The worker pool: compressNDJSON with opts.workers in a process where the
\* pool runs
\* ------------------------------------------------------------------------

\* a record and blank lines after it, as many lines as auto mode asks for
TextManyLines ==
    Join([i \in 1..ManyWindows |-> IF i = 1 THEN LineRecord ELSE <<>>], <<10>>)

\* opts.workers a number or 'auto', on machines of two and of four processors
PoolConfigs ==
    {[BaseConfig EXCEPT !.api = "ndjson", !.codec = c, !.workers = w, !.cpus = n,
                        !.runtime = "runs", !.columnar = col] :
        c \in {"gzip", "identity", "hybrid"}, w \in {1, 2, Undef}, n \in {2, 4},
        col \in BOOLEAN}

InitPool ==
    /\ pc = "ready"
    /\ config \in PoolConfigs
    /\ given \in {TextRows, TextThreeRows, TextColumnar, TextManyLines}
    /\ packed = NothingPacked
    /\ output = NoOutput
    /\ NoFollower
    /\ pool = NoPool

NextPool == CompressNDJSON \/ WorkerReply \/ BatchDone

SpecPool == InitPool /\ [][NextPool]_vars

\* the call went through the pool
Pooled == packed.results # <<>>

\* C14 (as stated): the container a call makes with the worker pool is, byte
\* for byte, the container the same call makes on the single-threaded path
C14_SameBytes ==
    (pc = "packed" /\ packed.ok /\ Pooled)
    => packed.bytes = compressNDJSON(given, config).bytes

\* C15: the body made with the worker pool holds the result of window i at
\* place i, for every order in which the workers answer and every split of
\* the windows over workers and batches
C15_IndexOrder ==
    (pc = "packed" /\ packed.ok /\ Pooled)
    => decodeContainer(packed.bytes).body
         = Join([i \in DOMAIN packed.chunks |->
                    codecEncode(packed.codec, packed.chunks[i]).data], <<10>>)

\* a container of three windows made by two workers in two batches
C15_Witness ==
    /\ pc = "packed" /\ packed.ok /\ Pooled
    /\ config.workers = 2 /\ Len(packed.chunks) = 3
    /\ packed.chunks[1] # packed.chunks[3]

\* C16 (as stated): with columnar: false compressNDJSON does not use the
\* worker pool, whatever opts.workers and the size of the input
C16_RowsUnpooled ==
    (config.api = "ndjson" /\ ~config.columnar) => (pc # "pool" /\ ~Pooled)

\* ------------------------------------------------------------------------
\* Columns: a value vector through encodeColumn and decodeColumn
\* ------------------------------------------------------------------------

MaxRows == 2

\* 2^53 - 1 and 1700000000000 in the two limbs of the model
MaxSafeInteger == <<(2^27) - 1, (2^26) - 1>>
EpochMillis == <<25331, 65366016>>

\* the values a record can hold under one key
ColumnValues0 ==
    {JNull, JInt(NumOf(0)), JInt(NumOf(5)), JInt(NumOf(6)), JInt(NumOf(0 - 3)),
     JInt(NumOf((2^30) - 1)), JInt(NumOf(2^30)), JInt(NumOf(0 - (2^30))),
     JInt(EpochMillis), JInt(MaxSafeInteger),
     JBool(TRUE), JBool(FALSE),
     JStr(<<105, 110, 102, 111>>), JStr(<<119, 97, 114, 110>>), JStr(<<>>),
     JStr(<<65279, 120>>),
     JStr(<<97, 97, 97, 97, 97, 97, 97, 97, 97, 97, 97, 97, 97, 97, 97, 97, 97>>),
     JFlt(NumOf(1), <<53>>), JArr(<<JInt(NumOf(1)), JNull>>),
     JObj(<<[k |-> <<98>>, v |-> JBool(TRUE)], [k |-> <<97>>, v |-> JStr(<<120>>)]>>)}

Vectors == UNION {[1..n -> ColumnValues0] : n \in 1..MaxRows}

InitCol ==
    /\ pc = "ready"
    /\ given \in Vectors
    /\ config = [BaseConfig EXCEPT !.api = "column"]
    /\ packed = NothingPacked
    /\ output = NoOutput
    /\ NoFollower
    /\ pool = NoPool

NextCol == EncodeColumn \/ DecodeColumn

SpecCol == InitCol /\ [][NextCol]_vars

\* C8 (as stated): decoding an encoded column with the same row count gives
\* back the value vector element for element, nulls included, for every value
\* the encoders accept and every integer of 53 bits
C8_ColumnRoundTrip ==
    pc = "decoded" => output.ok /\ output.values = given

\* ---------------------------------------------------------------------------
\* Following a file
\* ---------------------------------------------------------------------------

InitFollow ==
    /\ pc = "follow"
    /\ given = <<>>
    /\ config = FileOptions
    /\ packed = NothingPacked
    /\ output = NoOutput
    /\ \E record \in FollowRecords : file = [inode |-> 1, lines |-> <<record>>]
    /\ saved = NoState
    /\ cat = [phase |-> "idle", state |-> NoState, info |-> NoInfo]
    /\ written = {}
    /\ pool = NoPool

NextFollow == Poll \/ ProcessFile \/ Restart \/ AppendRecord \/ Rotate

SpecFollow == InitFollow /\ [][NextFollow]_vars

\* the follower has nothing left to do with the file as it is: the next poll
\* would not read it
CaughtUp == cat.phase = "idle" /\ Polled(cat.state, getFileInfo(file)).phase = "idle"

\* C18: juc-cat in follow mode with a state file delivers at least once: where
\* the follower has nothing left to read, every record in the followed file
\* has been written to the output, whatever growth, rotation and restarts
\* came before
C18_AtLeastOnce ==
    CaughtUp =>
        \A i \in DOMAIN file.lines :
            formatLogEntry(JSONParse(file.lines[i]).v) \in written

\* ---------------------------------------------------------------------------
\* Tiny inputs: where the columnar encoder declines
\* ---------------------------------------------------------------------------

MaxTinyLines == 4

\* {"m":"..."} whose string is three U+FEFF: 11 characters, 17 bytes
LineMarks == <<123, 34, 109, 34, 58, 34, 65279, 65279, 65279, 34, 125>>

\* a blank line, records of 7, 23 and 11 characters and a line that is no JSON
TinyLineChoices == {<<>>, LineRecord, LineSmall, LineMarks, DocBroken}

TinyTexts ==
    {Join(ls, <<10>>) :
        ls \in UNION {[1..n -> TinyLineChoices] : n \in 1..MaxTinyLines}}

InitTiny ==
    /\ pc = "ready"
    /\ given \in TinyTexts
    /\ config = [BaseConfig EXCEPT !.api = "ndjson", !.columnar = TRUE]
    /\ packed = NothingPacked
    /\ output = NoOutput
    /\ NoFollower
    /\ pool = NoPool

NextTiny == CompressNDJSON \/ DecompressNDJSON

SpecTiny == InitTiny /\ [][NextTiny]_vars

\* the line is a record: it parses to a JSON object
IsRecordLine(line) == With(JSONParse(Trim(line)), LAMBDA r : r.ok /\ r.v.t = "obj")

RecordCount(text) ==
    With(SplitLines(StripBOM(text)), LAMBDA allLines :
        Cardinality({i \in DOMAIN allLines : IsRecordLine(allLines[i])}))

\* fewer than 3 valid records, or a raw length below 64 bytes
IsTiny(text) == RecordCount(text) < 3 \/ Len(utf8Encode(text)) < 64

\* what the same call makes with columnar: false
RowWisePacked == compressNDJSON(given, [config EXCEPT !.columnar = FALSE])

\* C21: with columnar: true the columnar path declines exactly when the input
\* has fewer than 3 valid records or fewer than 64 bytes: the container then
\* holds the row-wise encoding of the lines, and holds columnar frames in
\* every other case
C21_DeclineRule ==
    pc \in {"packed", "done"} =>
        IF IsTiny(given)
        THEN packed.ok /\ ~isColumnarPayload(packed.payload)
             /\ packed.payload = RowWisePacked.payload
        ELSE IsColumnar

\* ---------------------------------------------------------------------------
\* Blank lines under columnar: true
\* ---------------------------------------------------------------------------

\* {"a":1}\n\n{"b":2}\n   \n{"c":3}: five lines, 28 characters
TextS2 ==
    <<123, 34, 97, 34, 58, 49, 125, 10, 10, 123, 34, 98, 34, 58, 50, 125, 10, 32, 32, 32,
      10, 123, 34, 99, 34, 58, 51, 125>>

\* the five lines of the test 'should handle empty lines and malformed input
\* gracefully': {"valid": "json"}, an empty line, {"another": "valid",
\* "number": 42}, three spaces, {"final": "entry"}: 76 characters
TextGraceful ==
    <<123, 34, 118, 97, 108, 105, 100, 34, 58, 32, 34, 106, 115, 111, 110, 34, 125, 10,
      10, 123, 34, 97, 110, 111, 116, 104, 101, 114, 34, 58, 32, 34, 118, 97, 108, 105,
      100, 34, 44, 32, 34, 110, 117, 109, 98, 101, 114, 34, 58, 32, 52, 50, 125, 10, 32,
      32, 32, 10, 123, 34, 102, 105, 110, 97, 108, 34, 58, 32, 34, 101, 110, 116, 114,
      121, 34, 125>>

InitBlank ==
    /\ pc = "ready"
    /\ given \in ColumnarTexts \cup {TextS2, TextGraceful}
    /\ config = [BaseConfig EXCEPT !.api = "ndjson", !.columnar = TRUE]
    /\ packed = NothingPacked
    /\ output = NoOutput
    /\ NoFollower
    /\ pool = NoPool

NextBlank == CompressNDJSON \/ DecompressNDJSON

SpecBlank == InitBlank /\ [][NextBlank]_vars

GivenLines == SplitLines(StripBOM(given))

\* the full decode has returned
FullyDecoded == pc = "done" /\ output.ok /\ output.fields = <<>>

\* every line of the input that is blank or whitespace-only is the empty
\* string in the output
BlankLinesEmpty ==
    \A i \in DOMAIN GivenLines :
        Trim(GivenLines[i]) = <<>> =>
            i \in DOMAIN OutputLines /\ OutputLines[i] = <<>>

\* the output line at position i parses to what the input line parses to
ParsesAlike(i) ==
    /\ i \in DOMAIN OutputLines
    /\ JSONParse(OutputLines[i]).ok
    /\ JSONParse(OutputLines[i]).v = JSONParse(GivenLines[i]).v

FrameRows(frame) == readU32LE(frame, 1)
FrameShapeId(frame) == Slice(frame, 5, 13)

\* the shape frames of the body that carry the id of the shape
FramesOfShape(f) ==
    SelectSeq(Tail(packed.chunks),
              LAMBDA frame : FrameShapeId(frame) = writeU64LE(computeShapeId(f)))

\* the records of the input that have the shape, in document order
GroupRecords(f) == ShapeGroup(Records(InputLines(given)), f)

\* the frames of the shape are ceil(n / BatchSize) frames, all but the last of
\* BatchSize rows, and frame k holds the k-th run of the group's records
BatchedInOrder(f) ==
    With(GroupRecords(f), LAMBDA group :
    With(FramesOfShape(f), LAMBDA frames :
        /\ Len(frames) = CeilDiv(Len(group), BatchSize)
        /\ \A k \in DOMAIN frames :
              /\ FrameRows(frames[k]) <= BatchSize
              /\ FrameRows(frames[k]) =
                    IF k < Len(frames) THEN BatchSize
                    ELSE Len(group) - (Len(frames) - 1) * BatchSize
              /\ frames[k] =
                    encodeColumnarBatch(
                        SubSeq(group, (k - 1) * BatchSize + 1,
                               (k - 1) * BatchSize + FrameRows(frames[k])),
                        computeShapeId(f), config.keyDict)))

\* C23: a shape group of n records is emitted as exactly ceil(n / BatchSize)
\* shape frames, each of at most BatchSize rows and all but the last of exactly
\* BatchSize, in document order, and the body has no other shape frame
C23_FramesPerGroup ==
    (pc \in {"packed", "done"} /\ IsColumnar)
    => /\ \A f \in Fingerprints(Records(InputLines(given))) : BatchedInOrder(f)
       /\ \A i \in DOMAIN Tail(packed.chunks) :
             \E f \in Fingerprints(Records(InputLines(given))) :
                 FrameShapeId(Tail(packed.chunks)[i]) = writeU64LE(computeShapeId(f))

\* a group of BatchSize + 1 records of which not all are alike has been written
\* as two frames, of BatchSize rows and of 1 row
C23_Witness ==
    /\ pc = "packed" /\ IsColumnar
    /\ \E f \in Fingerprints(Records(InputLines(given))) :
          /\ Len(GroupRecords(f)) = BatchSize + 1
          /\ GroupRecords(f)[1] # GroupRecords(f)[2]
          /\ Len(FramesOfShape(f)) = 2
          /\ FrameRows(FramesOfShape(f)[1]) = BatchSize
          /\ FrameRows(FramesOfShape(f)[2]) = 1

\* ---------------------------------------------------------------------------
\* The hybrid codec on byte strings
\* ---------------------------------------------------------------------------

MaxBlocks == 3

\* a window of one byte, a window of bytes that are all different, a short
\* run and three bytes
BlockChoices ==
    {Repeat(97, CHUNK_SIZE), [i \in 1..CHUNK_SIZE |-> i], Repeat(98, 8), <<1, 2, 3>>}

ByteStrings ==
    {Flatten(blocks) :
        blocks \in UNION {[1..n -> BlockChoices] : n \in 0..MaxBlocks}}

InitHybrid ==
    /\ pc = "bytes"
    /\ given \in ByteStrings
    /\ \E trailing \in {"ignore", "error"} :
          config = [BaseConfig EXCEPT !.codec = "hybrid", !.trailing = trailing]
    /\ packed = NothingPacked
    /\ output = NoOutput
    /\ NoFollower
    /\ pool = NoPool

\* hybridCodec.encode(input)
HybridEncode ==
    /\ pc = "bytes"
    /\ packed' = [NothingPacked EXCEPT !.ok = TRUE, !.bytes = hybridEncode(given),
                                       !.payload = given, !.codec = "hybrid"]
    /\ pc' = "squeezed"
    /\ UNCHANGED <<given, config, output>>
    /\ UNCHANGED followVars
    /\ UNCHANGED pool

\* hybridCodec.decode(input)
HybridDecode ==
    /\ pc = "squeezed"
    /\ \E d \in {hybridDecode(packed.bytes, config.trailing)} :
          output' = [NoOutput EXCEPT !.ok = d.ok, !.values = d.data]
    /\ pc' = "restored"
    /\ UNCHANGED <<given, config, packed>>
    /\ UNCHANGED followVars
    /\ UNCHANGED pool

NextHybrid == HybridEncode \/ HybridDecode

SpecHybrid == InitHybrid /\ [][NextHybrid]_vars

\* the smallest solid-mode result: the whole input compressed once by each
\* back-end there is
SmallestSolid == Smaller(brotliEncode(given), gzipEncode(given))

WindowedEnvelope == HybridEnvelope(HybridWindows(given))

\* C24: the hybrid selector picks the smaller overall: its output is never
\* longer than the smallest solid-mode result nor than the HYB1 envelope of
\* the windows, and an output that is not the envelope is shorter than it
C24_SmallerOverall ==
    pc \in {"squeezed", "restored"} =>
        /\ Len(packed.bytes) <= Len(SmallestSolid)
        /\ Len(packed.bytes) <= Len(WindowedEnvelope)
        /\ packed.bytes # WindowedEnvelope => Len(packed.bytes) < Len(WindowedEnvelope)

\* C25: for every byte string x, hybrid decode(hybrid encode(x)) = x, whichever
\* form encode emitted: raw solid or coalesced bytes, recovered by the first
\* back-end that decodes them, or the HYB1 envelope, whose windows are decoded
\* and concatenated in stored order
C25_HybridRoundTrip ==
    pc = "restored" => output.ok /\ output.values = given

\* raw gzip bytes of an input of several windows have been decoded: the
\* fallback went past brotli to gzip
C25_Witness ==
    /\ pc = "restored" /\ output.ok /\ output.values = given
    /\ Len(given) > CHUNK_SIZE
    /\ packed.bytes = gzipEncode(given)

\* ---------------------------------------------------------------------------
\* Column bytes as a decoder receives them, well-formed or not
\* ---------------------------------------------------------------------------

MaxWireRows == 2

\* varints: of one, two and five bytes, cut off after one, two and six
\* continuation bytes, and of six bytes
WireVarints ==
    {<<>>, <<5>>, <<0>>, <<127>>, <<129, 1>>, <<255, 127>>, <<255, 255, 255, 255, 15>>,
     <<128>>, <<200, 200>>, <<128, 128, 128, 128, 128, 128>>,
     <<255, 255, 255, 255, 255, 1>>, <<129, 128, 128, 128, 128, 128, 0>>}

\* columns of the implemented types
WireColumns ==
    {<<INT_VARINT, 11>>, <<INT_VARINT, 11, 0>>, <<INT_VARINT, 128>>,
     <<DELTA_ZIGZAG, 10, 2>>, <<BOOL_RLE, 1, 1>>, <<BOOL_RLE, 2, 0>>,
     <<RAW_JSON, 1, 53>>, <<RAW_JSON, 1, 53, 4, 110, 117, 108, 108>>,
     <<RAW_JSON, 200>>}

\* ENUM_IDS columns over the dictionary ["x"] and over ["x", "y"]: ids in the
\* dictionary, the null id 255, and ids past the dictionary
WireEnums ==
    {<<ENUM_IDS, 1, 1, 120>> \o ids :
        ids \in {<<0>>, <<0, 0>>, <<255>>, <<0, 255>>, <<1>>, <<0, 1>>, <<7, 0>>, <<254, 255>>}}
    \cup {<<ENUM_IDS, 2, 1, 120, 1, 121>> \o ids :
        ids \in {<<0, 1>>, <<1, 0>>, <<2>>, <<1, 2>>, <<255, 3>>}}
    \cup {<<ENUM_IDS, 0, 0>>, <<ENUM_IDS, 0, 255>>}

\* columns whose type tag is none of the implemented ones: STR_IDS_WITH_RESID
\* (5), which the enum of types names and no decoder reads, 7 and 200
WireUnknown ==
    {<<5>>, <<5, 1, 1, 120, 0>>, <<7>>, <<7, 11>>, <<7, 1, 53>>, <<200>>, <<200, 0, 0>>,
     <<255, 255>>}

WireBytes == WireVarints \cup WireColumns \cup WireEnums \cup WireUnknown

InitWire ==
    /\ pc = "wire"
    /\ given \in WireBytes
    /\ config = [BaseConfig EXCEPT !.api = "column"]
    /\ packed = NothingPacked
    /\ output = NoOutput
    /\ NoFollower
    /\ pool = NoPool

\* decodeVarint(given, 0): the function has no throw, it returns in every case
ReadVarint ==
    /\ pc = "wire"
    /\ \E d \in {decodeVarint(given, 0)} :
          output' = [NoOutput EXCEPT !.ok = TRUE, !.values = <<d.value, d.newOffset>>]
    /\ pc' = "read"
    /\ UNCHANGED <<given, config, packed>>
    /\ UNCHANGED followVars
    /\ UNCHANGED pool

\* decodeColumn(given, rows)
DecodeWireColumn ==
    /\ pc = "wire"
    /\ \E rows \in 1..MaxWireRows :
       \E values \in {decodeColumn(given, rows)} :
          output' = [NoOutput EXCEPT !.ok = ~Threw(values), !.values = values]
    /\ pc' = "unpacked"
    /\ UNCHANGED <<given, config, packed>>
    /\ UNCHANGED followVars
    /\ UNCHANGED pool

NextWire == ReadVarint \/ DecodeWireColumn

SpecWire == InitWire /\ [][NextWire]_vars

\* no byte with the continuation bit clear before the end of the buffer
RunsOffTheEnd(bytes) == \A i \in DOMAIN bytes : bytes[i] >= 128

\* the first five bytes all have the continuation bit set and a sixth follows
OverFiveBytes(bytes) == Len(bytes) > 5 /\ \A i \in 1..5 : bytes[i] >= 128

\* C26: varint decode fails with an error if the bytes run off the end of the
\* buffer before a terminating byte is read, or if more than five bytes are
\* consumed; it returns no value in either case
C26_VarintFails ==
    (pc = "read" /\ (RunsOffTheEnd(given) \/ OverFiveBytes(given))) => ~output.ok

ImplementedTypes == {INT_VARINT, DELTA_ZIGZAG, TIME_DOD, BOOL_RLE, ENUM_IDS, RAW_JSON}

\* C27: decoding a column whose type tag is not one of the implemented column
\* types fails with a fatal error; the decoder returns no substituted values
C27_UnknownTypeFails ==
    (pc = "unpacked" /\ given # <<>> /\ given[1] \notin ImplementedTypes) => ~output.ok

\* the row ids of an ENUM_IDS column of the given number of rows, and the
\* number of strings in its dictionary
EnumDictCount(column) == ByteAt(column, 1)

EnumRowIds(column, rows) ==
    With(Slice(column, 1, Len(column)), LAMBDA payload :
    With(EnumStrings(payload, ByteAt(payload, 0), 0, 1), LAMBDA e :
        [i \in 1..rows |-> ByteAt(payload, e.offset + i - 1)]))

HasIdPastDict(column, rows) ==
    \E i \in 1..rows :
        /\ EnumRowIds(column, rows)[i] # Undef
        /\ EnumRowIds(column, rows)[i] # 255
        /\ EnumRowIds(column, rows)[i] >= EnumDictCount(column)

\* C28: decoding an ENUM_IDS column in which some row id is greater than or
\* equal to dictCount and different from 255 fails with a fatal error; such
\* an id is never decoded as null or as a dictionary string
C28_EnumIdFails ==
    (pc = "unpacked" /\ Len(given) >= 2 /\ given[1] = ENUM_IDS
     /\ HasIdPastDict(given, Len(output.values)))
    => ~output.ok

\* ---------------------------------------------------------------------------
\* The worker pool: workers, their events and the call that waits for them
\* ---------------------------------------------------------------------------

MaxPoolSize == 2

MaxWindows == 4

\* every worker a pool of MaxPoolSize can come to have: a failing worker is
\* replaced, and the first failure ends the call
WorkerIds == 1..(MaxPoolSize + 1)

\* WorkerPool.spawn(): the new worker is idle; the result's spawned names it
spawn(p) ==
    With(p.spawned + 1, LAMBDA worker :
        [p EXCEPT !.spawned = worker,
                  !.alive = @ \cup {worker},
                  !.idle = Append(@, worker),
                  !.all = Append(@, worker)])

\* new WorkerPool(workerPath, size)
RECURSIVE SpawnAll(_, _)
SpawnAll(p, size) ==
    IF size = 0 THEN p ELSE SpawnAll(spawn(p), size - 1)

\* WorkerPool.assignTask(task): the last idle worker is sent the task
assignTask(p, task) ==
    IF p.idle = <<>>
    THEN [p EXCEPT !.queue = Append(@, task)]
    ELSE With(p.idle[Len(p.idle)], LAMBDA worker :
             [p EXCEPT !.idle = SubSeq(@, 1, Len(@) - 1),
                       !.busy = @ \cup {worker},
                       !.pendingTasks = Append(@, task),
                       !.holds[worker] = task])

\* WorkerPool.run(req): the promise of the task is pending from here on
run(p, task) ==
    With([p EXCEPT !.settled[task] = "pending"], LAMBDA q :
        IF Len(q.idle) > 0 THEN assignTask(q, task)
        ELSE [q EXCEPT !.queue = Append(@, task)])

\* WorkerPool.processQueue()
RECURSIVE processQueue(_)
processQueue(p) ==
    IF Len(p.queue) > 0 /\ Len(p.idle) > 0
    THEN processQueue(assignTask([p EXCEPT !.queue = Tail(@)], Head(p.queue)))
    ELSE p

\* Math.min(a, b)
Min(a, b) == IF a < b THEN a ELSE b

Without(seq, x) == SelectSeq(seq, LAMBDA y : y # x)

\* worker.on('message'): a response nobody waits for is dropped, and the
\* worker that sent it stays busy
onMessage(p, worker, id, failed) ==
    IF id \notin Range(p.pendingTasks) THEN p
    ELSE processQueue(
             [p EXCEPT !.pendingTasks = Without(@, id),
                       !.busy = @ \ {worker},
                       !.idle = Append(@, worker),
                       !.settled[id] = IF failed THEN "rejected" ELSE "resolved"])

\* the tasks worker.on('error') rejects: its test is on the worker, so it is
\* the same for every task that is pending
RejectedOnError(p, worker) ==
    IF worker \in p.busy THEN Range(p.pendingTasks) ELSE {}

\* the task the worker was sent, while somebody waits for it
RejectedOfWorker(p, worker) ==
    {p.holds[worker]} \cap Range(p.pendingTasks)

\* worker.on('error'): the tasks are rejected, the worker is replaced in all
\* by a new one, and the queue is left as it is
onError(p, worker) ==
    With([p EXCEPT !.pendingTasks =
                       SelectSeq(@, LAMBDA id : id \notin RejectedOnError(p, worker)),
                   !.settled = [id \in DOMAIN @ |->
                                   IF id \in RejectedOnError(p, worker)
                                   THEN "rejected" ELSE @[id]],
                   !.busy = @ \ {worker}],
         LAMBDA q :
             IF worker \in Range(q.all)
             THEN With(spawn(q), LAMBDA r :
                      [r EXCEPT !.all = [i \in DOMAIN @ |->
                                            IF i = IndexOf(q.all, worker) + 1
                                            THEN r.spawned ELSE @[i]]])
             ELSE q)

\* WorkerPool.destroy(): the workers are terminated, with the task they
\* hold if they hold one, and the lists emptied; the queue is not touched
\* and no promise is settled
destroy(p) ==
    [p EXCEPT !.alive = {},
              !.all = <<>>, !.idle = <<>>, !.busy = {}, !.pendingTasks = <<>>]

\* the windows of the batch that starts after window base
BatchOf(p) == (p.base + 1)..Min(p.base + WorkerBatch, p.windows)

\* batchTasks.push(pool.run(message)) for each window of the batch, in order
RECURSIVE RunAll(_, _, _)
RunAll(p, from, to) ==
    IF from > to THEN p ELSE RunAll(run(p, from), from + 1, to)

SubmitBatch(p) ==
    [RunAll(p, p.base + 1, Min(p.base + WorkerBatch, p.windows))
        EXCEPT !.call = "await"]

\* Promise.all(batchTasks) is settled: one task is rejected, or all resolved
BatchRejects(p) ==
    p.call = "await" /\ \E j \in BatchOf(p) : p.settled[j] = "rejected"

BatchResolves(p) ==
    p.call = "await" /\ \A j \in BatchOf(p) : p.settled[j] = "resolved"

\* the call's continuation runs before the next event of a worker is handled
EventsHandled(p) == p.call = "await" /\ ~BatchRejects(p) /\ ~BatchResolves(p)

NewPool(size, windows) ==
    SpawnAll([NoPool EXCEPT !.size = size, !.windows = windows,
                            !.holds = [w \in WorkerIds |-> 0],
                            !.settled = [j \in 1..windows |-> "none"],
                            !.call = "start"],
             size)

\* compressWithWorkers(chunks, codec, workerCount) after new WorkerPool(...)
InitWorkers ==
    /\ pc = "workers"
    /\ given = <<>>
    /\ config = BaseConfig
    /\ packed = NothingPacked
    /\ output = NoOutput
    /\ NoFollower
    /\ \E size \in 1..MaxPoolSize, windows \in 1..MaxWindows :
          pool = NewPool(size, windows)

\* the first batch is submitted
CallStart ==
    /\ pc = "workers"
    /\ pool.call = "start"
    /\ pool' = SubmitBatch(pool)
    /\ UNCHANGED <<pc, given, config, packed, output>>
    /\ UNCHANGED followVars

\* a worker posts the response to the task it was sent: a result, or the
\* error its handler caught
WorkerMessage(worker) ==
    /\ pc = "workers"
    /\ EventsHandled(pool)
    /\ worker \in pool.alive
    /\ pool.holds[worker] # 0
    /\ \E failed \in BOOLEAN :
          pool' = onMessage([pool EXCEPT !.holds[worker] = 0], worker,
                            pool.holds[worker], failed)
    /\ UNCHANGED <<pc, given, config, packed, output>>
    /\ UNCHANGED followVars

\* a worker emits 'error' over the task it was sent, and is gone
WorkerError(worker) ==
    /\ pc = "workers"
    /\ EventsHandled(pool)
    /\ worker \in pool.alive
    /\ pool.holds[worker] # 0
    /\ pool' = [onError(pool, worker) EXCEPT !.alive = @ \ {worker},
                                              !.holds[worker] = 0]
    /\ UNCHANGED <<pc, given, config, packed, output>>
    /\ UNCHANGED followVars

\* await Promise.all(batchTasks) returns: the next batch is submitted, or
\* the call returns through finally { await pool.destroy() }
BatchResolved ==
    /\ pc = "workers"
    /\ BatchResolves(pool)
    /\ pool' = With([pool EXCEPT !.base = Min(@ + WorkerBatch, pool.windows)],
                    LAMBDA p :
                        IF p.base < p.windows THEN SubmitBatch(p)
                        ELSE [destroy(p) EXCEPT !.call = "returned"])
    /\ UNCHANGED <<pc, given, config, packed, output>>
    /\ UNCHANGED followVars

\* await Promise.all(batchTasks) throws: the call throws through
\* finally { await pool.destroy() }
BatchRejected ==
    /\ pc = "workers"
    /\ BatchRejects(pool)
    /\ pool' = [destroy(pool) EXCEPT !.call = "thrown"]
    /\ UNCHANGED <<pc, given, config, packed, output>>
    /\ UNCHANGED followVars

NextWorkers ==
    \/ CallStart
    \/ \E worker \in WorkerIds : WorkerMessage(worker)
    \/ \E worker \in WorkerIds : WorkerError(worker)
    \/ BatchResolved
    \/ BatchRejected

SpecWorkers == InitWorkers /\ [][NextWorkers]_vars

\* the scheduling the claims about the pool rest on: a worker that was sent
\* a task posts its response or emits 'error', and the continuation of the
\* call runs once Promise.all is settled
FairWorkers ==
    /\ SpecWorkers
    /\ \A worker \in WorkerIds :
          WF_vars(WorkerMessage(worker) \/ WorkerError(worker))
    /\ WF_vars(CallStart \/ BatchResolved \/ BatchRejected)

Settled(j) == j \in DOMAIN pool.settled /\ pool.settled[j] \in {"resolved", "rejected"}

Pending(j) == j \in DOMAIN pool.settled /\ pool.settled[j] = "pending"

\* C30: when a worker emits 'error', exactly the tasks assigned to that
\* worker are rejected: every other pending task, on another worker or in
\* the queue, is still pending after the handler
C30_OnlyOwnTasksRejected ==
    [][\A worker \in WorkerIds :
          WorkerError(worker) =>
              \A j \in DOMAIN pool.settled :
                  (Pending(j) /\ pool'.settled[j] = "rejected")
                      <=> j \in RejectedOfWorker(pool, worker)]_vars

\* a worker was terminated with a task in hand: it never answers for it
WorkerSilenced ==
    \E worker \in WorkerIds : worker \notin pool.alive /\ pool.holds[worker] # 0

\* C29: every task submitted through run() is eventually settled, resolved
\* or rejected, as long as each worker answers for the task it holds: a
\* task that waits in the queue is assigned and settled too
C29_EveryTaskSettled ==
    \A j \in 1..MaxWindows : Pending(j) ~> (Settled(j) \/ WorkerSilenced)

====
